---- MODULE Spec2Model ----
(***************************************************************************)
(* A model of the feed merger of transitfeed (src/merge.py): the           *)
(* FeedMerger orchestrator, the DataSetMerger strategies, the concrete     *)
(* entity mergers and the id generator.                                    *)
(*                                                                         *)
(* Strings (ids, names) are sequences of one-character strings, so that    *)
(* formatting ('%s_merged_%d'), the trailing-number regular expression and *)
(* lower() are computed rather than assumed.  None and '' are both the     *)
(* empty sequence wherever the code only tests truthiness.                 *)
(* Migrated entities are Python objects that are aliased by the merge      *)
(* maps, the back-references and the output schedule: they live in `heap`  *)
(* and are referred to by their index.                                     *)
(***************************************************************************)
EXTENDS Integers, Sequences, FiniteSets, TLC

\* ------------------------------------------------------------------ bounds
\* Largest number of generate_id calls explored after construction.
MaxGen == 2
\* Largest number of mergers registered in the merge_schedules sequencing runs.
MaxMergers == 3
\* Number of distinct ids per kind of entity in the feeds explored.
MaxIds == 2
\* Positions (metres along a line) range over 0..MaxPos.
MaxPos == 2
\* Dates (day numbers) range over 1..MaxDate.
MaxDate == 3

VARIABLES
  a_schedule,            \* FeedMerger.a_schedule: the old feed
  b_schedule,            \* FeedMerger.b_schedule: the new feed
  merged_schedule,       \* FeedMerger.merged_schedule: per kind, the objects added
  heap,                  \* the migrated entity objects, by object index
  a_merge_map,           \* FeedMerger.a_merge_map: original entity -> object
  b_merge_map,           \* FeedMerger.b_merge_map
  a_migrated_entity,     \* the _migrated_entity attribute of A's entities
  b_migrated_entity,     \* the _migrated_entity attribute of B's entities
  a_zone_map,            \* FeedMerger.a_zone_map: zone_id -> zone_id
  b_zone_map,            \* FeedMerger.b_zone_map
  idnum,                 \* FeedMerger._idnum
  mergers,               \* FeedMerger._mergers
  problems,              \* what the problem reporter was given, in order
  stats,                 \* per merger: _num_merged, _num_not_merged_a/_b
  largest_stop_distance, \* StopMerger.largest_stop_distance
  largest_shape_distance,\* ShapeMerger.largest_shape_distance
  require_disjoint_calendars, \* ServicePeriodMerger.require_disjoint_calendars
  pc,                    \* merge_schedules: index of the next merger, 0 before the call
  called,                \* the mergers whose merge_data_sets was called, in order
  result,                \* what merge_schedules returned: "none" until it returns
  generated,             \* the ids returned by generate_id, in order
  crashed,               \* an exception (KeyError, AttributeError) left a merger
  cutoff,                \* the cutoff disjoin_calendars was called with, 0 before
  calendars_disjoint,    \* what check_disjoint_calendars returned to its caller
  written,               \* main: write_google_transit_feed was called on the merged feed
  report                 \* main: the merged_feed_path write_output got, "none" before

vars == <<a_schedule, b_schedule, merged_schedule, heap, a_merge_map,
          b_merge_map, a_migrated_entity, b_migrated_entity, a_zone_map,
          b_zone_map, idnum, mergers, problems, stats, largest_stop_distance,
          largest_shape_distance, require_disjoint_calendars, pc, called,
          result, generated, crashed, cutoff, calendars_disjoint, written,
          report>>

\* ----------------------------------------------------------------- strings
None == <<>>

DigitChars == <<"0", "1", "2", "3", "4", "5", "6", "7", "8", "9">>

IsDigit(c) == \E i \in 1..10 : DigitChars[i] = c

DigitValue(c) == (CHOOSE i \in 1..10 : DigitChars[i] = c) - 1

\* '%d' % n for n >= 0
RECURSIVE FormatInt(_)
FormatInt(n) ==
  IF n < 10 THEN <<DigitChars[n + 1]>>
  ELSE FormatInt(n \div 10) \o <<DigitChars[(n % 10) + 1]>>

\* int(text) for a sequence of digits
RECURSIVE ParseInt(_)
ParseInt(text) ==
  IF text = <<>> THEN 0
  ELSE 10 * ParseInt(SubSeq(text, 1, Len(text) - 1)) + DigitValue(text[Len(text)])

\* the group matched by re '(\d+)$': the longest run of digits ending the id
RECURSIVE PostfixDigits(_)
PostfixDigits(text) ==
  IF text = <<>> \/ ~IsDigit(text[Len(text)]) THEN <<>>
  ELSE PostfixDigits(SubSeq(text, 1, Len(text) - 1)) \o <<text[Len(text)]>>

extract_postfix_number_skip(entity_id) == 0

extract_postfix_number_last_digit(entity_id) ==
  IF entity_id = None \/ ~IsDigit(entity_id[Len(entity_id)]) THEN 0
  ELSE DigitValue(entity_id[Len(entity_id)])

extract_postfix_number(entity_id) ==
  IF entity_id = None THEN 0
  ELSE IF PostfixDigits(entity_id) # <<>> THEN ParseInt(PostfixDigits(entity_id))
  ELSE 0

MergedInfix == <<"_", "m", "e", "r", "g", "e", "d", "_">>
MergedPrefix == <<"m", "e", "r", "g", "e", "d", "_">>

LowerChar(c) ==
  CASE c = "A" -> "a"
    [] c = "B" -> "b"
    [] c = "C" -> "c"
    [] OTHER -> c

\* str.lower()
Lower(text) == [i \in 1..Len(text) |-> LowerChar(text[i])]

Max(x, y) == IF x >= y THEN x ELSE y
Min(x, y) == IF x <= y THEN x ELSE y

\* --------------------------------------------------------------- schedules
\* A schedule maps each kind to the list of its entities (records).  Fare rules
\* are owned by their fare attribute (FareAttribute.rules).
Kinds == {"agency", "stop", "route", "service_period", "fare", "shape",
          "trip", "transfer"}

EmptySchedule == [k \in Kinds |-> <<>>]

EmptyMerged == [k \in Kinds \cup {"fare_rule"} |-> <<>>]

EmptyMap == <<>>

\* _get_id of each DataSetMerger; a transfer's id is its _ID() tuple
GetId(kind, e) ==
  CASE kind = "agency" -> e.agency_id
    [] kind = "stop" -> e.stop_id
    [] kind = "route" -> e.route_id
    [] kind = "service_period" -> e.service_id
    [] kind = "fare" -> e.fare_id
    [] kind = "shape" -> e.shape_id
    [] kind = "trip" -> e.trip_id
    [] kind = "transfer" -> <<e.from_stop_id, e.to_stop_id>>

\* the entity with the id replaced (the id attribute assignment of _migrate)
SetId(kind, e, id) ==
  CASE kind = "agency" -> [e EXCEPT !.agency_id = id]
    [] kind = "stop" -> [e EXCEPT !.stop_id = id]
    [] kind = "route" -> [e EXCEPT !.route_id = id]
    [] kind = "service_period" -> [e EXCEPT !.service_id = id]
    [] kind = "fare" -> [e EXCEPT !.fare_id = id]
    [] kind = "shape" -> [e EXCEPT !.shape_id = id]
    [] kind = "trip" -> [e EXCEPT !.trip_id = id]

\* _get_iter: Schedule.GetAgencyList(), get_stop_list(), ...
GetIter(kind, schedule) == schedule[kind]

\* _get_by_id: Schedule.GetAgency(id), GetStop(id), ...: the position of the
\* entity in the schedule, 0 for KeyError
GetById(kind, schedule, id) ==
  IF \E i \in DOMAIN schedule[kind] : GetId(kind, schedule[kind][i]) = id
  THEN CHOOSE i \in DOMAIN schedule[kind] : GetId(kind, schedule[kind][i]) = id
  ELSE 0

HasIdNever(kind, schedule, id) == FALSE

HasIdAlways(kind, schedule, id) == TRUE

\* DataSetMerger._has_id
HasId(kind, schedule, id) == GetById(kind, schedule, id) # 0

\* Schedule.GetDefaultAgency: the only agency of the schedule, 0 (no migrated
\* agency can be found) otherwise
GetDefaultAgency(schedule) ==
  IF Len(schedule["agency"]) = 1 THEN 1 ELSE 0

\* An original entity is named by its kind and position in its schedule.
Key(kind, i) == <<kind, i>>
NoKey == <<>>

Sched(side) == IF side = "a" THEN a_schedule ELSE b_schedule

\* ------------------------------------------------------------- FeedMerger
\* The part of the state the mergers read and write, passed through the
\* operators below as one record.
Cur ==
  [merged_schedule |-> merged_schedule, heap |-> heap,
   a_merge_map |-> a_merge_map, b_merge_map |-> b_merge_map,
   a_migrated_entity |-> a_migrated_entity,
   b_migrated_entity |-> b_migrated_entity,
   a_zone_map |-> a_zone_map, b_zone_map |-> b_zone_map,
   idnum |-> idnum, problems |-> problems, crashed |-> crashed,
   num_merged |-> 0, num_not_merged_a |-> 0, num_not_merged_b |-> 0,
   stop_merged |-> <<>>, stop_a_not_merged |-> <<>>,
   stop_b_not_merged |-> <<>>]

MapPut(m, k, v) == [x \in DOMAIN m \cup {k} |-> IF x = k THEN v ELSE m[x]]

MergeMap(s, side) == IF side = "a" THEN s.a_merge_map ELSE s.b_merge_map
MigratedEntity(s, side) ==
  IF side = "a" THEN s.a_migrated_entity ELSE s.b_migrated_entity
ZoneMap(s, side) == IF side = "a" THEN s.a_zone_map ELSE s.b_zone_map

\* the ids _find_largest_id_postfix_number reads: id_data_sets
IdDataSets == {"agency", "stop", "route", "trip", "service_period", "fare",
               "shape"}

IdDataSetsNoShape == IdDataSets \ {"shape"}

ScheduleIds(schedule, kinds) ==
  UNION {{GetId(k, schedule[k][i]) : i \in DOMAIN schedule[k]} : k \in kinds}

SetMax(S) == IF S = {} THEN 0 ELSE CHOOSE x \in S : \A y \in S : y <= x

find_largest_id_postfix_number_no_shape(schedule) ==
  SetMax({extract_postfix_number(id) : id \in ScheduleIds(schedule, IdDataSetsNoShape)})

\* FeedMerger._find_largest_id_postfix_number
find_largest_id_postfix_number(schedule) ==
  SetMax({extract_postfix_number(id) : id \in ScheduleIds(schedule, IdDataSets)})

\* FeedMerger.__init__: the initial _idnum
InitialIdnum(a, b) ==
  Max(find_largest_id_postfix_number(a), find_largest_id_postfix_number(b))

generated_id_no_increment(n, entity_id) ==
  IF entity_id # None THEN entity_id \o MergedInfix \o FormatInt(n)
  ELSE MergedPrefix \o FormatInt(n)

generated_id_no_number(n, entity_id) ==
  IF entity_id # None THEN entity_id \o MergedInfix
  ELSE MergedPrefix

\* FeedMerger.generate_id: the id returned when _idnum is n before the call
generated_id(n, entity_id) ==
  IF entity_id # None THEN entity_id \o MergedInfix \o FormatInt(n + 1)
  ELSE MergedPrefix \o FormatInt(n + 1)

\* FeedMerger.generate_id: the state after the call and the id returned
generate_id(s, entity_id) ==
  [s |-> [s EXCEPT !.idnum = s.idnum + 1],
   id |-> generated_id(s.idnum, entity_id)]

register_only(s, a, b, migrated_entity) ==
  LET s1 == IF a # NoKey
            THEN [s EXCEPT !.a_merge_map = MapPut(EmptyMap, a, migrated_entity),
                           !.a_migrated_entity = MapPut(@, a, migrated_entity)]
            ELSE s
  IN IF b # NoKey
     THEN [s1 EXCEPT !.b_merge_map = MapPut(EmptyMap, b, migrated_entity),
                     !.b_migrated_entity = MapPut(@, b, migrated_entity)]
     ELSE s1

\* FeedMerger.register; a and b are keys of original entities or NoKey,
\* migrated_entity an object of the heap
register(s, a, b, migrated_entity) ==
  LET s1 == IF a # NoKey
            THEN [s EXCEPT !.a_merge_map = MapPut(@, a, migrated_entity),
                           !.a_migrated_entity = MapPut(@, a, migrated_entity)]
            ELSE s
  IN IF b # NoKey
     THEN [s1 EXCEPT !.b_merge_map = MapPut(@, b, migrated_entity),
                     !.b_migrated_entity = MapPut(@, b, migrated_entity)]
     ELSE s1

\* a new object on the heap: the state after, the object being Len(heap)
Alloc(s, val) == [s EXCEPT !.heap = Append(@, val)]

\* Schedule.addAgencyObject, addStopObject, ...: the object joins the output
AddObject(s, kind, obj) ==
  [s EXCEPT !.merged_schedule[kind] = Append(@, obj)]

Report(s, problem) == [s EXCEPT !.problems = Append(@, problem)]

Crash(s) == [s EXCEPT !.crashed = TRUE]

\* ---------------------------------------------------------- DataSetMerger
\* A merge function returns ok = FALSE where the code raises MergeError.
merge_identical_accept(a, b) == [ok |-> TRUE, val |-> b]

merge_identical_take_a(a, b) == [ok |-> a = b, val |-> a]

\* DataSetMerger._merge_identical
merge_identical(a, b) == [ok |-> a = b, val |-> b]

merge_identical_case_sensitive(a, b) == [ok |-> a = b, val |-> b]

\* DataSetMerger._merge_identical_case_insensitive
merge_identical_case_insensitive(a, b) ==
  [ok |-> Lower(a) = Lower(b), val |-> b]

\* DataSetMerger._merge_optional
merge_optional(a, b) ==
  [ok |-> ~(a # None /\ b # None /\ a # b),
   val |-> IF a # None THEN a ELSE b]

\* AgencyMerger._merge_entities._merge_agency_id ('' and None are one value)
merge_agency_id(a_agency_id, b_agency_id) ==
  merge_identical(a_agency_id, b_agency_id)

\* The agency a route's agency_id names in its schedule: GetAgency(id), or
\* GetDefaultAgency() for an empty id; 0 when there is none
ResolveAgency(schedule, agency_id) ==
  IF agency_id # None THEN GetById("agency", schedule, agency_id)
  ELSE GetDefaultAgency(schedule)

merge_same_agency_by_id(s, a_agency_id, b_agency_id) ==
  LET ia == ResolveAgency(a_schedule, a_agency_id)
      ib == ResolveAgency(b_schedule, b_agency_id)
      found == /\ ia # 0 /\ ib # 0
               /\ Key("agency", ia) \in DOMAIN s.a_migrated_entity
               /\ Key("agency", ib) \in DOMAIN s.b_migrated_entity
      a_agency == s.a_migrated_entity[Key("agency", ia)]
  IN IF ~found THEN [ok |-> FALSE, val |-> None, crash |-> TRUE]
     ELSE [ok |-> a_schedule["agency"][ia].agency_id
                    = b_schedule["agency"][ib].agency_id,
           val |-> s.heap[a_agency].agency_id, crash |-> FALSE]

\* DataSetMerger._merge_same_agency; crash = TRUE where the code raises
\* KeyError or AttributeError
merge_same_agency(s, a_agency_id, b_agency_id) ==
  LET ia == ResolveAgency(a_schedule, a_agency_id)
      ib == ResolveAgency(b_schedule, b_agency_id)
      found == /\ ia # 0 /\ ib # 0
               /\ Key("agency", ia) \in DOMAIN s.a_migrated_entity
               /\ Key("agency", ib) \in DOMAIN s.b_migrated_entity
      a_agency == s.a_migrated_entity[Key("agency", ia)]
      b_agency == s.b_migrated_entity[Key("agency", ib)]
  IN IF ~found THEN [ok |-> FALSE, val |-> None, crash |-> TRUE]
     ELSE [ok |-> s.heap[a_agency] = s.heap[b_agency],
           val |-> s.heap[a_agency].agency_id, crash |-> FALSE]

\* The merge schemes of the _merge_entities methods: attribute, merge function
AgencyScheme ==
  << <<"agency_id", "agency_id">>, <<"agency_name", "identical">>,
     <<"agency_url", "identical">>, <<"agency_timezone", "identical">> >>

StopSchemeNoZone ==
  << <<"stop_id", "identical">>, <<"stop_name", "case_insensitive">>,
     <<"location_type", "identical">> >>

StopScheme ==
  << <<"stop_id", "identical">>, <<"stop_name", "case_insensitive">>,
     <<"zone_id", "identical">>, <<"location_type", "identical">> >>

RouteScheme ==
  << <<"route_short_name", "identical">>, <<"route_long_name", "identical">>,
     <<"agency_id", "same_agency">>, <<"route_type", "identical">>,
     <<"route_id", "identical">>, <<"route_url", "optional">>,
     <<"route_color", "optional">>, <<"route_text_color", "optional">> >>

FareScheme ==
  << <<"price", "identical">>, <<"currency_type", "identical">>,
     <<"payment_method", "identical">>, <<"transfers", "identical">>,
     <<"transfer_duration", "identical">> >>

\* merger(a_attr, b_attr) of _schemed_merge, by the name of the merge function
ApplyMerger(name, s, x, y) ==
  CASE name = "identical" -> merge_identical(x, y) @@ [crash |-> FALSE]
    [] name = "case_insensitive" ->
         merge_identical_case_insensitive(x, y) @@ [crash |-> FALSE]
    [] name = "optional" -> merge_optional(x, y) @@ [crash |-> FALSE]
    [] name = "agency_id" -> merge_agency_id(x, y) @@ [crash |-> FALSE]
    [] name = "same_agency" -> merge_same_agency(s, x, y)

\* ------------------------------------------------------------- _migrate
\* _migrate returns the state after it, the migrated entity `val`, and `obj`:
\* the object's place on the heap when _migrate itself put it into the output
\* (TripMerger), 0 otherwise.

\* the entity under the id generate_id returned (g: the state after and the id)
Renamed(kind, entity, g) ==
  [s |-> g.s, val |-> SetId(kind, entity, g.id), obj |-> 0]

\* the `if newid:` part common to the _migrate methods
WithNewId(kind, s, entity, newid) ==
  IF newid THEN Renamed(kind, entity, generate_id(s, GetId(kind, entity)))
  ELSE [s |-> s, val |-> entity, obj |-> 0]

\* AgencyMerger._migrate
AgencyMigrate(s, entity, side, newid) == WithNewId("agency", s, entity, newid)

\* StopMerger._migrate
StopMigrate(s, entity, side, newid) == WithNewId("stop", s, entity, newid)

RouteSetAgencyKept(m, side, ia) == m

\* RouteMerger._migrate: agency_id becomes the id of the migrated agency; ia
\* is the route's agency in its schedule
RouteSetAgency(m, side, ia) ==
  IF ia = 0 \/ Key("agency", ia) \notin DOMAIN MigratedEntity(m.s, side)
  THEN [m EXCEPT !.s = Crash(@)]
  ELSE [m EXCEPT !.val.agency_id =
          m.s.heap[MigratedEntity(m.s, side)[Key("agency", ia)]].agency_id]

\* RouteMerger._migrate
RouteMigrate(s, entity, side, newid) ==
  RouteSetAgency(WithNewId("route", s, entity, newid), side,
                 ResolveAgency(Sched(side), entity.agency_id))

\* ServicePeriodMerger._migrate
ServicePeriodMigrate(s, entity, side, newid) ==
  WithNewId("service_period", s, entity, newid)

\* FareMerger._migrate; FareAttribute.__init__ leaves the copy without rules
FareMigrate(s, entity, side, newid) ==
  WithNewId("fare", s, [entity EXCEPT !.rules = <<>>], newid)

\* ShapeMerger._migrate
ShapeMigrate(s, entity, side, newid) == WithNewId("shape", s, entity, newid)

\* FeedMerger.get_schedule_name
get_schedule_name(side) == <<side>>

BlockIdKept(side, block_id) == block_id

\* the block_id of a migrated trip: '%s_%s' % (schedule name, block_id)
BlockId(side, block_id) ==
  IF block_id # None THEN get_schedule_name(side) \o <<"_">> \o block_id
  ELSE block_id

\* merge_map[x] of TripMerger._migrate; 0 for a KeyError
MapGet(m, k) == IF k \in DOMAIN m THEN m[k] ELSE 0

\* TripMerger._migrate: the migrated objects the trip refers to
TripRefs(merge_map, schedule, entity) ==
  [route |-> MapGet(merge_map,
               Key("route", GetById("route", schedule, entity.route_id))),
   service |-> MapGet(merge_map,
                 Key("service_period",
                     GetById("service_period", schedule, entity.service_id))),
   shape |-> MapGet(merge_map,
               Key("shape", GetById("shape", schedule, entity.shape_id))),
   stops |-> [i \in DOMAIN entity.stop_times |->
                MapGet(merge_map,
                  Key("stop", GetById("stop", schedule, entity.stop_times[i])))]]

\* no lookup of TripMerger._migrate raises KeyError
TripRefsFound(refs, entity) ==
  /\ refs.route # 0 /\ refs.service # 0
  /\ (entity.shape_id # None => refs.shape # 0)
  /\ \A i \in DOMAIN refs.stops : refs.stops[i] # 0

TripWithRefsKeepIds(m, refs, entity, side, newid) ==
  [m.val EXCEPT !.original_trip_id = IF newid THEN entity.trip_id ELSE @,
                !.block_id = BlockId(side, entity.block_id),
                !.stop_times = refs.stops]

\* TripMerger._migrate: the trip with its references rewritten
TripWithRefs(m, refs, entity, side, newid) ==
  [m.val EXCEPT !.original_trip_id = IF newid THEN entity.trip_id ELSE @,
                !.route_id = m.s.heap[refs.route].route_id,
                !.service_id = m.s.heap[refs.service].service_id,
                !.block_id = BlockId(side, entity.block_id),
                !.shape_id = IF entity.shape_id # None
                             THEN m.s.heap[refs.shape].shape_id ELSE @,
                !.stop_times = refs.stops]

\* TripMerger._migrate: the trip joins the output (AddTripObject) before its
\* references are rewritten, so it stays there when a lookup fails
TripStore(m, refs, entity, side, newid) ==
  IF TripRefsFound(refs, entity)
  THEN [s |-> AddObject(Alloc(m.s, TripWithRefs(m, refs, entity, side, newid)),
                        "trip", Len(m.s.heap) + 1),
        val |-> TripWithRefs(m, refs, entity, side, newid),
        obj |-> Len(m.s.heap) + 1]
  ELSE [s |-> Crash(AddObject(Alloc(m.s, m.val), "trip", Len(m.s.heap) + 1)),
        val |-> m.val, obj |-> Len(m.s.heap) + 1]

TripRewrite(m, entity, side, newid) ==
  TripStore(m, TripRefs(MergeMap(m.s, side), Sched(side), entity), entity,
            side, newid)

\* TripMerger._migrate
TripMigrate(s, entity, side, newid) ==
  TripRewrite(WithNewId("trip", s, entity, newid), entity, side, newid)

TransferMigrateKeepIds(s, entity, side) == [s |-> s, val |-> entity, obj |-> 0]

\* TransferMerger._migrate
TransferMigrate(s, entity, side) ==
  LET kf == Key("stop", GetById("stop", Sched(side), entity.from_stop_id))
      kt == Key("stop", GetById("stop", Sched(side), entity.to_stop_id))
      back == MigratedEntity(s, side)
  IN IF \/ (entity.from_stop_id # None /\ kf \notin DOMAIN back)
        \/ (entity.to_stop_id # None /\ kt \notin DOMAIN back)
     THEN [s |-> Crash(s), val |-> entity, obj |-> 0]
     ELSE [s |-> s,
           val |-> [entity EXCEPT
                      !.from_stop_id = IF @ # None
                                       THEN s.heap[back[kf]].stop_id ELSE @,
                      !.to_stop_id = IF @ # None
                                     THEN s.heap[back[kt]].stop_id ELSE @],
           obj |-> 0]

\* self._migrate(entity, schedule, newid) of the strategies
Migrate(kind, s, entity, side, newid) ==
  CASE kind = "agency" -> AgencyMigrate(s, entity, side, newid)
    [] kind = "stop" -> StopMigrate(s, entity, side, newid)
    [] kind = "route" -> RouteMigrate(s, entity, side, newid)
    [] kind = "service_period" -> ServicePeriodMigrate(s, entity, side, newid)
    [] kind = "fare" -> FareMigrate(s, entity, side, newid)
    [] kind = "shape" -> ShapeMigrate(s, entity, side, newid)
    [] kind = "trip" -> TripMigrate(s, entity, side, newid)
    [] kind = "transfer" -> TransferMigrate(s, entity, side)

\* ------------------------------------------------------- _merge_entities
\* The attribute loop of _schemed_merge from position i on: ok = FALSE where
\* MergeError is raised; the state is threaded so that an effect of a failed
\* attempt would stay visible.  r is what the merge function of attribute i
\* returned.
RECURSIVE SchemeLoop(_, _, _, _, _, _)
RECURSIVE SchemeStep(_, _, _, _, _, _, _)
SchemeStep(scheme, i, s, a, b, migrated, r) ==
  IF r.crash THEN [ok |-> FALSE, s |-> Crash(s), val |-> migrated, obj |-> 0]
  ELSE IF ~r.ok THEN [ok |-> FALSE, s |-> s, val |-> migrated, obj |-> 0]
  ELSE SchemeLoop(scheme, i + 1, s, a, b,
                  [migrated EXCEPT ![scheme[i][1]] = r.val])

SchemeLoop(scheme, i, s, a, b, migrated) ==
  IF i > Len(scheme) THEN [ok |-> TRUE, s |-> s, val |-> migrated, obj |-> 0]
  ELSE SchemeStep(scheme, i, s, a, b, migrated,
                  ApplyMerger(scheme[i][2], s, a[scheme[i][1]], b[scheme[i][1]]))

\* the loop over the scheme, starting from the migrated entity m
SchemeFrom(scheme, a, b, m) == SchemeLoop(scheme, 1, m.s, a, b, m.val)

schemed_merge_from_a(kind, scheme, s, a, b) ==
  SchemeFrom(scheme, a, b, Migrate(kind, s, a, "a", FALSE))

schemed_merge_new_id(kind, scheme, s, a, b) ==
  SchemeFrom(scheme, a, b, Migrate(kind, s, b, "b", TRUE))

\* DataSetMerger._schemed_merge
schemed_merge(kind, scheme, s, a, b) ==
  SchemeFrom(scheme, a, b, Migrate(kind, s, b, "b", FALSE))

Abs(x) == IF x < 0 THEN -x ELSE x

\* transitfeed.ApproximateDistanceBetweenStops: positions are metres on a line
ApproximateDistance(pa, pb) == Abs(pa - pb)

Failed(s) == [ok |-> FALSE, s |-> s, val |-> None, obj |-> 0]

Merged(m) == [ok |-> TRUE, s |-> m.s, val |-> m.val, obj |-> 0]

\* AgencyMerger._merge_entities
AgencyMergeEntities(s, a, b) == schemed_merge("agency", AgencyScheme, s, a, b)

StopMergeEntitiesStrict(s, a, b) ==
  IF ApproximateDistance(a.stop_pos, b.stop_pos) >= largest_stop_distance
  THEN Failed(s)
  ELSE schemed_merge("stop", StopScheme, s, a, b)

StopMergeEntitiesAnyDistance(s, a, b) ==
  schemed_merge("stop", StopScheme, s, a, b)

StopMergeEntitiesNoZone(s, a, b) ==
  IF ApproximateDistance(a.stop_pos, b.stop_pos) > largest_stop_distance
  THEN Failed(s)
  ELSE schemed_merge("stop", StopSchemeNoZone, s, a, b)

\* StopMerger._merge_entities
StopMergeEntities(s, a, b) ==
  IF ApproximateDistance(a.stop_pos, b.stop_pos) > largest_stop_distance
  THEN Failed(s)
  ELSE schemed_merge("stop", StopScheme, s, a, b)

\* RouteMerger._merge_entities
RouteMergeEntities(s, a, b) == schemed_merge("route", RouteScheme, s, a, b)

\* ServicePeriodMerger._merge_entities
ServicePeriodMergeEntities(s, a, b) == Failed(s)

\* FareMerger._merge_entities
FareMergeEntities(s, a, b) == schemed_merge("fare", FareScheme, s, a, b)

\* ShapeMerger._merge_entities: the larger of the distances between the first
\* points and between the last points
ShapeDistance(a, b) ==
  Max(ApproximateDistance(a.points[1][1], b.points[1][1]),
      ApproximateDistance(a.points[Len(a.points)][1],
                          b.points[Len(b.points)][1]))

\* ShapeMerger._merge_entities
ShapeMergeEntities(s, a, b) ==
  IF a.shape_id # b.shape_id THEN Failed(s)
  ELSE IF ShapeDistance(a, b) > largest_shape_distance THEN Failed(s)
  ELSE Merged(ShapeMigrate(s, b, "b", FALSE))

\* TripMerger._merge_entities
TripMergeEntities(s, a, b) == Failed(s)

\* self._merge_entities(a, b) of the strategies
MergeEntities(kind, s, a, b) ==
  CASE kind = "agency" -> AgencyMergeEntities(s, a, b)
    [] kind = "stop" -> StopMergeEntities(s, a, b)
    [] kind = "route" -> RouteMergeEntities(s, a, b)
    [] kind = "service_period" -> ServicePeriodMergeEntities(s, a, b)
    [] kind = "fare" -> FareMergeEntities(s, a, b)
    [] kind = "shape" -> ShapeMergeEntities(s, a, b)
    [] kind = "trip" -> TripMergeEntities(s, a, b)

\* ------------------------------------------------------------------ _add
\* StopMerger._add after register: the stop is added to the output later, by
\* merge_data_sets
StopRemember(s, a, b, obj) ==
  IF a # NoKey /\ b # NoKey
  THEN [s EXCEPT !.stop_merged = Append(@, <<a, b, obj>>)]
  ELSE IF a # NoKey
  THEN [s EXCEPT !.stop_a_not_merged = Append(@, <<a, obj>>)]
  ELSE IF b # NoKey
  THEN [s EXCEPT !.stop_b_not_merged = Append(@, <<b, obj>>)]
  ELSE s

\* StopMerger._add
StopAdd(s, a, b, obj) == StopRemember(register(s, a, b, obj), a, b, obj)

\* the object of the entity m that _migrate or _merge_entities returned: the
\* one _migrate put on the heap, or a new one
ObjectOf(s, m) == IF m.obj = 0 THEN Len(s.heap) + 1 ELSE m.obj
Stored(s, m) == IF m.obj = 0 THEN Alloc(s, m.val) ELSE s

AddWithoutRegister(kind, s, a, b, m) ==
  AddObject(Stored(s, m), kind, ObjectOf(s, m))

\* self._add(a, b, migrated) of the strategies
Add(kind, s, a, b, m) ==
  CASE kind = "stop" -> StopAdd(Stored(s, m), a, b, ObjectOf(s, m))
    [] kind = "trip" -> register(Stored(s, m), a, b, ObjectOf(s, m))
    [] OTHER -> AddObject(register(Stored(s, m), a, b, ObjectOf(s, m)), kind,
                          ObjectOf(s, m))

ReportSameIdButNotMergedNothing(kind, s, entity_id) == s

ReportSameIdButNotMergedAlways(kind, s, entity_id) ==
  Report(s, [problem |-> "same_id_but_not_merged", kind |-> kind,
             id |-> entity_id])

\* _reportsame_id_but_not_merged: ServicePeriodMerger and TripMerger override
\* it to report nothing
ReportSameIdButNotMerged(kind, s, entity_id) ==
  IF kind \in {"service_period", "trip"} THEN s
  ELSE Report(s, [problem |-> "same_id_but_not_merged", kind |-> kind,
                  id |-> entity_id])

\* ------------------------------------------------------------ strategies
SameIdMergedRaises(kind, i, j, st, r) ==
  IF r.ok
  THEN [st EXCEPT !.s = [Add(kind, r.s, Key(kind, i), Key(kind, j), r)
                           EXCEPT !.num_merged = @ + 1]]
  ELSE [st EXCEPT !.s = Crash(r.s)]

\* _merge_same_id, first loop, after _merge_entities(a, b) returned r for the
\* i-th entity of A and the j-th of B
SameIdMerged(kind, i, j, st, r) ==
  IF r.ok
  THEN [st EXCEPT !.s = [Add(kind, r.s, Key(kind, i), Key(kind, j), r)
                           EXCEPT !.num_merged = @ + 1]]
  ELSE [st EXCEPT
          !.a_not_merged = Append(@, i),
          !.b_not_merged = Append(@, j),
          !.s = ReportSameIdButNotMerged(kind, r.s,
                  GetId(kind, GetIter(kind, a_schedule)[i]))]

\* _merge_same_id, first loop: the i-th entity of A, j its counterpart in B
SameIdStepA(kind, i, j, st) ==
  IF j = 0 THEN [st EXCEPT !.a_not_merged = Append(@, i)]
  ELSE SameIdMerged(kind, i, j, st,
         MergeEntities(kind, st.s, GetIter(kind, a_schedule)[i],
                       GetIter(kind, b_schedule)[j]))

\* _merge_same_id, first loop: the entities of A from position i on
RECURSIVE SameIdLoopA(_, _, _)
SameIdLoopA(kind, i, st) ==
  IF i > Len(GetIter(kind, a_schedule)) THEN st
  ELSE SameIdLoopA(kind, i + 1,
         SameIdStepA(kind, i,
           GetById(kind, b_schedule, GetId(kind, GetIter(kind, a_schedule)[i])),
           st))

\* _merge_same_id, second loop: the entities of B with no entity of A of their id
RECURSIVE SameIdLoopB(_, _, _)
SameIdLoopB(kind, j, st) ==
  IF j > Len(GetIter(kind, b_schedule)) THEN st
  ELSE IF GetById(kind, a_schedule, GetId(kind, GetIter(kind, b_schedule)[j])) = 0
       THEN SameIdLoopB(kind, j + 1, [st EXCEPT !.b_not_merged = Append(@, j)])
       ELSE SameIdLoopB(kind, j + 1, st)

Other(side) == IF side = "a" THEN b_schedule ELSE a_schedule

\* self._add(a, None, migrated) or self._add(None, b, migrated)
AddMigrated(kind, side, i, m) ==
  Add(kind, m.s, IF side = "a" THEN Key(kind, i) ELSE NoKey,
      IF side = "b" THEN Key(kind, i) ELSE NoKey, m)

\* _merge_same_id, "migrate the remaining entities": one entity, under a new
\* id when the other schedule has its id
MigrateOne(kind, side, i, s) ==
  AddMigrated(kind, side, i,
    Migrate(kind, s, GetIter(kind, Sched(side))[i], side,
            HasId(kind, Other(side), GetId(kind, GetIter(kind, Sched(side))[i]))))

\* _merge_same_id, "migrate the remaining entities": list[n..] of one side
RECURSIVE MigrateRemaining(_, _, _, _, _)
MigrateRemaining(kind, side, list, n, s) ==
  IF n > Len(list) THEN s
  ELSE MigrateRemaining(kind, side, list, n + 1,
                        MigrateOne(kind, side, list[n], s))

SameIdFinishCountsOld(kind, st) ==
  [MigrateRemaining(kind, "b", st.b_not_merged, 1,
     MigrateRemaining(kind, "a", st.a_not_merged, 1, st.s))
   EXCEPT !.num_not_merged_a = Len(st.a_not_merged),
          !.num_not_merged_b = Len(st.a_not_merged)]

\* _merge_same_id after its first two loops
SameIdFinish(kind, st) ==
  [MigrateRemaining(kind, "b", st.b_not_merged, 1,
     MigrateRemaining(kind, "a", st.a_not_merged, 1, st.s))
   EXCEPT !.num_not_merged_a = Len(st.a_not_merged),
          !.num_not_merged_b = Len(st.b_not_merged)]

\* DataSetMerger._merge_same_id
merge_same_id(kind, s) ==
  SameIdFinish(kind,
    SameIdLoopB(kind, 1,
      SameIdLoopA(kind, 1,
        [s |-> s, a_not_merged |-> <<>>, b_not_merged |-> <<>>])))

\* _merge_by_id_keep_new, first two loops: the dict from migrated id to
\* <<original, migrated>>; a later entity of the same migrated id replaces
\* an earlier one
OrigPut(kind, i, om, m) ==
  [s |-> m.s,
   map |-> MapPut(om.map, GetId(kind, m.val), <<Key(kind, i), m>>),
   order |-> IF GetId(kind, m.val) \in DOMAIN om.map THEN om.order
             ELSE Append(om.order, GetId(kind, m.val))]

RECURSIVE OrigMigrated(_, _, _, _)
OrigMigrated(kind, side, i, om) ==
  IF i > Len(GetIter(kind, Sched(side))) THEN om
  ELSE OrigMigrated(kind, side, i + 1,
         OrigPut(kind, i, om,
                 Migrate(kind, om.s, GetIter(kind, Sched(side))[i], side, FALSE)))

DiscardedNever(side, migrated_id, other) == FALSE

\* _merge_by_id_keep_new, fourth loop: an entity of A is left out when an
\* entity of B migrated to its id (`if migrated_id not in b_orig_migrated`)
Discarded(side, migrated_id, other) ==
  side = "a" /\ migrated_id \in DOMAIN other.map

\* _merge_by_id_keep_new, third and fourth loop, from position n of the dict
RECURSIVE KeepNewLoop(_, _, _, _, _, _)
KeepNewLoop(kind, side, om, other, n, s) ==
  IF n > Len(om.order) THEN s
  ELSE KeepNewLoop(kind, side, om, other, n + 1,
         IF Discarded(side, om.order[n], other) THEN s
         ELSE [AddMigrated(kind, side, om.map[om.order[n]][1][2],
                           [om.map[om.order[n]][2] EXCEPT !.s = s])
               EXCEPT !.num_not_merged_a = @ + (IF side = "a" THEN 1 ELSE 0),
                      !.num_not_merged_b = @ + (IF side = "b" THEN 1 ELSE 0)])

\* _merge_by_id_keep_new after the dicts of A (oa) and of B (ob) were built:
\* every entity of B is added, then the ones of A whose id B has not
KeepNewFinish(kind, oa, ob) ==
  KeepNewLoop(kind, "a", oa, ob, 1, KeepNewLoop(kind, "b", ob, oa, 1, ob.s))

KeepNewB(kind, oa) ==
  KeepNewFinish(kind, oa,
    OrigMigrated(kind, "b", 1, [s |-> oa.s, map |-> EmptyMap, order |-> <<>>]))

\* DataSetMerger._merge_by_id_keep_new
merge_by_id_keep_new(kind, s) ==
  KeepNewB(kind,
    OrigMigrated(kind, "a", 1, [s |-> s, map |-> EmptyMap, order |-> <<>>]))

\* _merge_different_id, first loops, after _merge_entities(a, b) returned r
\* for the i-th entity of A and the j-th of B: `continue` on MergeError
DifferentIdMerged(kind, i, j, r) ==
  IF r.ok
  THEN [Add(kind, r.s, Key(kind, i), Key(kind, j), r)
          EXCEPT !.num_merged = @ + 1]
  ELSE r.s

\* _merge_different_id, first loops: the pairs (a, b) in the order of the
\* nested loops, n counting them from 0
RECURSIVE DifferentIdLoop(_, _, _)
DifferentIdLoop(kind, n, s) ==
  IF n >= Len(GetIter(kind, a_schedule)) * Len(GetIter(kind, b_schedule))
  THEN s
  ELSE DifferentIdLoop(kind, n + 1,
         DifferentIdMerged(kind,
           (n \div Len(GetIter(kind, b_schedule))) + 1,
           (n % Len(GetIter(kind, b_schedule))) + 1,
           MergeEntities(kind, s,
             GetIter(kind, a_schedule)[(n \div Len(GetIter(kind, b_schedule))) + 1],
             GetIter(kind, b_schedule)[(n % Len(GetIter(kind, b_schedule))) + 1])))

\* _merge_different_id: the entities of one side that are in no merge map
\* entry are counted and migrated
RECURSIVE DifferentIdRemaining(_, _, _, _)
DifferentIdRemaining(kind, side, i, s) ==
  IF i > Len(GetIter(kind, Sched(side))) THEN s
  ELSE IF Key(kind, i) \in DOMAIN MergeMap(s, side)
  THEN DifferentIdRemaining(kind, side, i + 1, s)
  ELSE DifferentIdRemaining(kind, side, i + 1,
         [MigrateOne(kind, side, i, s)
            EXCEPT !.num_not_merged_a = @ + (IF side = "a" THEN 1 ELSE 0),
                   !.num_not_merged_b = @ + (IF side = "b" THEN 1 ELSE 0)])

\* DataSetMerger._merge_different_id
merge_different_id(kind, s) ==
  DifferentIdRemaining(kind, "b", 1,
    DifferentIdRemaining(kind, "a", 1,
      DifferentIdLoop(kind, 0, s)))

\* merge_data_sets of a merger that uses _merge_different_id
DifferentIdMergeDataSets(kind, s) ==
  [s |-> merge_different_id(kind, s), ret |-> TRUE]

\* ------------------------------------------------------- merge_data_sets
\* Each merge_data_sets returns the state after it and `ret`, its return value.

\* AgencyMerger.merge_data_sets
AgencyMergeDataSets(s) == [s |-> merge_same_id("agency", s), ret |-> TRUE]

SetParentKept(s, side, obj, parent_station) == s

\* the parent_station of the migrated stop obj becomes the stop_id of the
\* migrated counterpart of its parent in the schedule of `side`
SetParent(s, side, obj, parent_station) ==
  IF parent_station = None THEN s
  ELSE IF Key("stop", GetById("stop", Sched(side), parent_station))
            \notin DOMAIN MergeMap(s, side)
  THEN Crash(s)
  ELSE [s EXCEPT !.heap[obj].parent_station =
          s.heap[MergeMap(s, side)[
            Key("stop", GetById("stop", Sched(side), parent_station))]].stop_id]

\* StopMerger.merge_data_sets: the zone_id of a merged stop is preserved
KeepZone(s, a, b, merged_stop) ==
  [(IF a.zone_id = b.zone_id THEN s ELSE Crash(s)) EXCEPT
     !.a_zone_map = MapPut(@, a.zone_id, a.zone_id),
     !.b_zone_map = MapPut(@, b.zone_id, b.zone_id),
     !.heap[merged_stop].zone_id = a.zone_id]

\* StopMerger.merge_data_sets, the loop over self._merged from position n on
RECURSIVE StopMergedLoop(_, _, _)
StopMergedLoop(list, n, s) ==
  IF n > Len(list) THEN s
  ELSE StopMergedLoop(list, n + 1,
         AddObject(
           SetParent(
             KeepZone(s, a_schedule["stop"][list[n][1][2]],
                      b_schedule["stop"][list[n][2][2]], list[n][3]),
             "b", list[n][3], b_schedule["stop"][list[n][2][2]].parent_station),
           "stop", list[n][3]))

\* _update_andmigrate_unmerged: the zone_id generate_id returned (g) is given
\* to the stop and remembered in the zone map
NewZone(g, side, zone_id, migrated_stop) ==
  IF side = "a"
  THEN [g.s EXCEPT !.heap[migrated_stop].zone_id = g.id,
                   !.a_zone_map = MapPut(@, zone_id, g.id)]
  ELSE [g.s EXCEPT !.heap[migrated_stop].zone_id = g.id,
                   !.b_zone_map = MapPut(@, zone_id, g.id)]

MapZoneAlwaysNew(s, side, zone_id, migrated_stop) ==
  NewZone(generate_id(s, zone_id), side, zone_id, migrated_stop)

\* _update_andmigrate_unmerged: an already mapped zone_id is used if possible
MapZone(s, side, zone_id, migrated_stop) ==
  IF zone_id \in DOMAIN ZoneMap(s, side)
  THEN [s EXCEPT !.heap[migrated_stop].zone_id = ZoneMap(s, side)[zone_id]]
  ELSE NewZone(generate_id(s, zone_id), side, zone_id, migrated_stop)

\* StopMerger._update_andmigrate_unmerged from position n of not_merged_stops
RECURSIVE update_andmigrate_unmerged(_, _, _, _)
update_andmigrate_unmerged(not_merged_stops, side, n, s) ==
  IF n > Len(not_merged_stops) THEN s
  ELSE update_andmigrate_unmerged(not_merged_stops, side, n + 1,
         AddObject(
           SetParent(
             MapZone(s, side,
                     Sched(side)["stop"][not_merged_stops[n][1][2]].zone_id,
                     not_merged_stops[n][2]),
             side, not_merged_stops[n][2],
             Sched(side)["stop"][not_merged_stops[n][1][2]].parent_station),
           "stop", not_merged_stops[n][2]))

\* StopMerger.merge_data_sets after _merge_same_id
StopFinish(s, merged, a_not_merged, b_not_merged) ==
  update_andmigrate_unmerged(b_not_merged, "b", 1,
    update_andmigrate_unmerged(a_not_merged, "a", 1,
      StopMergedLoop(merged, 1, s)))

StopZonesAndParents(s) ==
  StopFinish(s, s.stop_merged, s.stop_a_not_merged, s.stop_b_not_merged)

\* StopMerger.merge_data_sets
StopMergeDataSets(s) ==
  [s |-> StopZonesAndParents(merge_same_id("stop", s)), ret |-> TRUE]

\* RouteMerger.merge_data_sets
RouteMergeDataSets(s) == [s |-> merge_same_id("route", s), ret |-> TRUE]

\* ServicePeriod.get_date_range; a date is a day number, 0 stands for None,
\* date_exceptions maps a date to its exception type (1 adds, 2 removes)
get_date_range(period) ==
  LET added == {d \in DOMAIN period.date_exceptions :
                  period.date_exceptions[d] # 2}
      lo == CHOOSE d \in added : \A e \in added : d <= e
      hi == CHOOSE d \in added : \A e \in added : e <= d
      start == IF added = {} THEN period.start_date
               ELSE IF period.start_date = 0 THEN lo
               ELSE Min(period.start_date, lo)
      end == IF added = {} THEN period.end_date
             ELSE IF period.end_date = 0 THEN hi
             ELSE Max(period.end_date, hi)
  IN IF start = 0 THEN <<end, end>>
     ELSE IF end = 0 THEN <<start, start>>
     ELSE <<start, end>>

OverlapsStrict(a_range, b_range) ==
  Min(a_range[2], b_range[2]) > Max(a_range[1], b_range[1])

\* check_disjoint_calendars: overlap_end >= overlap_start
Overlaps(a_range, b_range) ==
  Min(a_range[2], b_range[2]) >= Max(a_range[1], b_range[1])

check_disjoint_calendars_always == TRUE

\* ServicePeriodMerger.check_disjoint_calendars
check_disjoint_calendars ==
  \A i \in DOMAIN a_schedule["service_period"] :
    \A j \in DOMAIN b_schedule["service_period"] :
      ~Overlaps(get_date_range(a_schedule["service_period"][i]),
                get_date_range(b_schedule["service_period"][j]))

ServicePeriodMergeDataSetsIgnoreCheck(s) ==
  [s |-> Report(merge_same_id("service_period", s),
                [problem |-> "merge_not_implemented",
                 kind |-> "service_period"]),
   ret |-> TRUE]

ServicePeriodMergeDataSetsMergeThenFail(s) ==
  IF require_disjoint_calendars /\ ~check_disjoint_calendars
  THEN [s |-> Report(merge_same_id("service_period", s),
                     [problem |-> "calendars_not_disjoint",
                      kind |-> "service_period"]),
        ret |-> FALSE]
  ELSE [s |-> Report(merge_same_id("service_period", s),
                     [problem |-> "merge_not_implemented",
                      kind |-> "service_period"]),
        ret |-> TRUE]

\* ServicePeriodMerger.merge_data_sets
ServicePeriodMergeDataSets(s) ==
  IF require_disjoint_calendars /\ ~check_disjoint_calendars
  THEN [s |-> Report(s, [problem |-> "calendars_not_disjoint",
                         kind |-> "service_period"]),
        ret |-> FALSE]
  ELSE [s |-> Report(merge_same_id("service_period", s),
                     [problem |-> "merge_not_implemented",
                      kind |-> "service_period"]),
        ret |-> TRUE]

\* FareMerger.merge_data_sets
FareMergeDataSets(s) == [s |-> merge_same_id("fare", s), ret |-> TRUE]

\* TransferMerger.merge_data_sets
TransferMergeDataSets(s) ==
  [s |-> merge_by_id_keep_new("transfer", s), ret |-> TRUE]

\* ShapeMerger.merge_data_sets
ShapeMergeDataSets(s) == [s |-> merge_same_id("shape", s), ret |-> TRUE]

\* TripMerger.merge_data_sets
TripMergeDataSets(s) ==
  [s |-> Report(merge_same_id("trip", s),
                [problem |-> "merge_not_implemented", kind |-> "trip"]),
   ret |-> TRUE]

\* FareRuleMerger.merge_data_sets: the tuple a fare rule of one side migrates
\* to; crash where a lookup raises KeyError
FareRuleTuple(s, side, fare_rule) ==
  LET schedule == Sched(side)
      merge_map == MergeMap(s, side)
      zone_map == ZoneMap(s, side)
      fare == MapGet(merge_map,
                Key("fare", GetById("fare", schedule, fare_rule.fare_id)))
      route == MapGet(merge_map,
                 Key("route", GetById("route", schedule, fare_rule.route_id)))
      Zone(z) == IF z # None THEN zone_map[z] ELSE z
      found == /\ fare # 0
               /\ (fare_rule.route_id # None => route # 0)
               /\ \A z \in {fare_rule.origin_id, fare_rule.destination_id,
                            fare_rule.contains_id} :
                    z # None => z \in DOMAIN zone_map
  IN IF ~found THEN [crash |-> TRUE, rule |-> fare_rule]
     ELSE [crash |-> FALSE,
           rule |-> [fare_id |-> s.heap[fare].fare_id,
                     route_id |-> IF fare_rule.route_id # None
                                  THEN s.heap[route].route_id
                                  ELSE fare_rule.route_id,
                     origin_id |-> Zone(fare_rule.origin_id),
                     destination_id |-> Zone(fare_rule.destination_id),
                     contains_id |-> Zone(fare_rule.contains_id)]]

\* the fare rules of a schedule, in the order the loops visit them
RECURSIVE ScheduleFareRules(_, _)
ScheduleFareRules(schedule, i) ==
  IF i > Len(schedule["fare"]) THEN <<>>
  ELSE schedule["fare"][i].rules \o ScheduleFareRules(schedule, i + 1)

FareRuleAddAlways(acc, r) ==
  IF r.crash THEN [acc EXCEPT !.crash = TRUE]
  ELSE [acc EXCEPT !.rules = Append(@, r.rule)]

\* rules.add(...): acc lists the distinct tuples; r is the tuple of one rule
FareRuleAdd(acc, r) ==
  IF r.crash THEN [acc EXCEPT !.crash = TRUE]
  ELSE IF \E i \in DOMAIN acc.rules : acc.rules[i] = r.rule THEN acc
  ELSE [acc EXCEPT !.rules = Append(@, r.rule)]

\* the rules set after the loops over `list` (the rules of one side) from n on
RECURSIVE FareRuleLoop(_, _, _, _, _)
FareRuleLoop(s, side, list, n, acc) ==
  IF n > Len(list) \/ acc.crash THEN acc
  ELSE FareRuleLoop(s, side, list, n + 1,
                    FareRuleAdd(acc, FareRuleTuple(s, side, list[n])))

\* adds the objects of list[n..] to the output's fare rules
RECURSIVE AddFareRules(_, _, _)
AddFareRules(s, list, n) ==
  IF n > Len(list) THEN s
  ELSE AddFareRules(AddObject(Alloc(s, list[n]), "fare_rule", Len(s.heap) + 1),
                    list, n + 1)

\* FareRuleMerger.merge_data_sets after the loops built the set of rules
FareRuleFinish(s, acc) ==
  IF acc.crash THEN [s |-> Crash(s), ret |-> TRUE]
  ELSE IF acc.rules # <<>>
  THEN [s |-> Report(AddFareRules(s, acc.rules, 1),
                     [problem |-> "fare_rules_broken", kind |-> "fare_rule"]),
        ret |-> TRUE]
  ELSE [s |-> s, ret |-> TRUE]

\* FareRuleMerger.merge_data_sets
FareRuleMergeDataSets(s) ==
  FareRuleFinish(s,
    FareRuleLoop(s, "b", ScheduleFareRules(b_schedule, 1), 1,
      FareRuleLoop(s, "a", ScheduleFareRules(a_schedule, 1), 1,
                   [crash |-> FALSE, rules |-> <<>>])))

\* --------------------------------------------------- merge_schedules steps
\* the counters a DataSetMerger starts merge_data_sets with, and the state
NoStats == <<0, 0, 0>>

Commit(s) ==
  /\ merged_schedule' = s.merged_schedule
  /\ heap' = s.heap
  /\ a_merge_map' = s.a_merge_map
  /\ b_merge_map' = s.b_merge_map
  /\ a_migrated_entity' = s.a_migrated_entity
  /\ b_migrated_entity' = s.b_migrated_entity
  /\ a_zone_map' = s.a_zone_map
  /\ b_zone_map' = s.b_zone_map
  /\ idnum' = s.idnum
  /\ problems' = s.problems
  /\ crashed' = s.crashed

Config == <<largest_stop_distance, largest_shape_distance,
            require_disjoint_calendars>>

\* FeedMerger.add_merger(TransferMerger(feed_merger)), before the merge
AddTransferMerger ==
  /\ pc = 0
  /\ \A i \in DOMAIN mergers : mergers[i].kind # "transfer"
  /\ mergers' = Append(mergers, [kind |-> "transfer"])
  /\ UNCHANGED <<written, report,
                 a_schedule, b_schedule, merged_schedule, heap, a_merge_map,
                 b_merge_map, a_migrated_entity, b_migrated_entity, a_zone_map,
                 b_zone_map, idnum, problems, stats, Config, cutoff, calendars_disjoint, pc, called,
                 result, generated, crashed>>

\* FeedMerger.add_merger with a stand-in merger, as the tests of
\* merge_schedules do
AddTestMerger ==
  /\ pc = 0
  /\ Len(mergers) < MaxMergers
  /\ \E n \in 1..MaxMergers, should_fail \in BOOLEAN :
       mergers' = Append(mergers, [kind |-> "test", n |-> n,
                                   should_fail |-> should_fail])
  /\ UNCHANGED <<written, report,
                 a_schedule, b_schedule, merged_schedule, heap, a_merge_map,
                 b_merge_map, a_migrated_entity, b_migrated_entity, a_zone_map,
                 b_zone_map, idnum, problems, stats, Config, cutoff, calendars_disjoint, pc, called,
                 result, generated, crashed>>

\* FeedMerger.merge_schedules is called
MergeSchedulesCall ==
  /\ pc = 0
  /\ pc' = 1
  /\ UNCHANGED <<written, report,
                 a_schedule, b_schedule, merged_schedule, heap, a_merge_map,
                 b_merge_map, a_migrated_entity, b_migrated_entity, a_zone_map,
                 b_zone_map, idnum, mergers, problems, stats, Config, cutoff, calendars_disjoint, called,
                 result, generated, crashed>>

NextMergerSkipsOnFalse(ret) == pc + 1

NextMergerRepeats(ret) == pc

\* merge_schedules: where the loop goes after a merger returned ret
NextMerger(ret) == IF ret THEN pc + 1 ELSE pc

ResultAfterIgnoreFalse(ret) == "none"

\* merge_schedules: `return False` as soon as a merger returns False
ResultAfter(ret) == IF ret THEN "none" ELSE "false"

\* merge_schedules: one turn of its loop, for the merger of the given kind
\* whose merge_data_sets gives r: the state after it and what it returned
RunMerger(kind, r) ==
  /\ pc \in 1..Len(mergers)
  /\ result = "none"
  /\ ~crashed
  /\ mergers[pc].kind = kind
  /\ Commit(r.s)
  /\ stats' = IF kind = "test" THEN stats
              ELSE [stats EXCEPT ![kind] =
                      <<r.s.num_merged, r.s.num_not_merged_a,
                        r.s.num_not_merged_b>>]
  /\ called' = Append(called, mergers[pc])
  /\ pc' = IF r.s.crashed THEN pc ELSE NextMerger(r.ret)
  /\ result' = IF r.s.crashed THEN "none" ELSE ResultAfter(r.ret)
  /\ UNCHANGED <<written, report,
                 a_schedule, b_schedule, mergers, Config, generated, cutoff,
                 calendars_disjoint>>

AgencyMerge == RunMerger("agency", AgencyMergeDataSets(Cur))
StopMerge == RunMerger("stop", StopMergeDataSets(Cur))
RouteMerge == RunMerger("route", RouteMergeDataSets(Cur))
ServicePeriodMerge ==
  RunMerger("service_period", ServicePeriodMergeDataSets(Cur))
FareMerge == RunMerger("fare", FareMergeDataSets(Cur))
TransferMerge == RunMerger("transfer", TransferMergeDataSets(Cur))
ShapeMerge == RunMerger("shape", ShapeMergeDataSets(Cur))
TripMerge == RunMerger("trip", TripMergeDataSets(Cur))
FareRuleMerge == RunMerger("fare_rule", FareRuleMergeDataSets(Cur))

\* a stand-in merger of the tests changes nothing and returns not should_fail
TestMergeDataSets(merger, s) == [s |-> s, ret |-> ~merger.should_fail]

TestMerge ==
  /\ pc \in 1..Len(mergers)
  /\ RunMerger("test", TestMergeDataSets(mergers[pc], Cur))

\* merge_schedules: `return True` after the loop
MergeSchedulesReturn ==
  /\ pc = Len(mergers) + 1
  /\ result = "none"
  /\ result' = "true"
  /\ UNCHANGED <<written, report,
                 a_schedule, b_schedule, merged_schedule, heap, a_merge_map,
                 b_merge_map, a_migrated_entity, b_migrated_entity, a_zone_map,
                 b_zone_map, idnum, mergers, problems, stats, Config, cutoff, calendars_disjoint, pc,
                 called, generated, crashed>>

\* FeedMerger.generate_id called by a client of the merger
GenerateId(Bases) ==
  /\ Len(generated) < MaxGen
  /\ \E entity_id \in Bases :
       /\ generated' = Append(generated, generated_id(idnum, entity_id))
       /\ idnum' = idnum + 1
  /\ UNCHANGED <<written, report,
                 a_schedule, b_schedule, merged_schedule, heap, a_merge_map,
                 b_merge_map, a_migrated_entity, b_migrated_entity, a_zone_map,
                 b_zone_map, mergers, problems, stats, Config, cutoff, calendars_disjoint, pc, called,
                 result, crashed>>

DefaultMergersRouteFirst ==
  << [kind |-> "route"], [kind |-> "agency"], [kind |-> "stop"],
     [kind |-> "service_period"], [kind |-> "fare"], [kind |-> "shape"],
     [kind |-> "trip"], [kind |-> "fare_rule"] >>

\* add_default_mergers
DefaultMergers ==
  << [kind |-> "agency"], [kind |-> "stop"], [kind |-> "route"],
     [kind |-> "service_period"], [kind |-> "fare"], [kind |-> "shape"],
     [kind |-> "trip"], [kind |-> "fare_rule"] >>

\* FeedMerger.__init__ and the DataSetMerger constructors, for two schedules
\* and the mergers' settings
Construct(a, b, stop_distance, shape_distance, disjoint) ==
  /\ a_schedule = a
  /\ b_schedule = b
  /\ merged_schedule = EmptyMerged
  /\ heap = <<>>
  /\ a_merge_map = EmptyMap
  /\ b_merge_map = EmptyMap
  /\ a_migrated_entity = EmptyMap
  /\ b_migrated_entity = EmptyMap
  /\ a_zone_map = EmptyMap
  /\ b_zone_map = EmptyMap
  /\ idnum = InitialIdnum(a, b)
  /\ problems = <<>>
  /\ stats = [k \in Kinds \cup {"fare_rule"} |-> NoStats]
  /\ largest_stop_distance = stop_distance
  /\ largest_shape_distance = shape_distance
  /\ require_disjoint_calendars = disjoint
  /\ pc = 0
  /\ called = <<>>
  /\ result = "none"
  /\ generated = <<>>
  /\ crashed = FALSE
  /\ cutoff = 0
  /\ calendars_disjoint = "none"
  /\ written = FALSE
  /\ report = "none"

\* ------------------------------------------------------------ input feeds
\* The entities of the feeds explored.  Attribute values are short strings.
Str(c) == <<c>>

\* the id of the n-th entity of a kind: a letter and the number
IdOf(letter, n) == <<letter>> \o FormatInt(n)

Agency(n, name, phone) ==
  [agency_id |-> IdOf("a", n), agency_name |-> name, agency_url |-> Str("u"),
   agency_timezone |-> Str("t"), agency_phone |-> phone]

Stop(n, name, pos, zone, location_type, parent, desc) ==
  [stop_id |-> IdOf("s", n), stop_name |-> name, stop_pos |-> pos,
   zone_id |-> zone, location_type |-> location_type,
   parent_station |-> parent, stop_desc |-> desc]

Route(n, agency_id, short_name, url) ==
  [route_id |-> IdOf("r", n), agency_id |-> agency_id,
   route_short_name |-> short_name, route_long_name |-> Str("l"),
   route_type |-> Str("3"), route_url |-> url, route_color |-> None,
   route_text_color |-> None]

ServicePeriod(n, start, end, exceptions) ==
  [service_id |-> IdOf("p", n), start_date |-> start, end_date |-> end,
   date_exceptions |-> exceptions, day_of_week |-> Str("w")]

FareRule(fare_id, route_id, origin, destination, contains) ==
  [fare_id |-> fare_id, route_id |-> route_id, origin_id |-> origin,
   destination_id |-> destination, contains_id |-> contains]

FareAttribute(n, price, rules) ==
  [fare_id |-> IdOf("f", n), price |-> price, currency_type |-> Str("c"),
   payment_method |-> Str("1"), transfers |-> None,
   transfer_duration |-> None, rules |-> rules]

Shape(n, first, last) ==
  [shape_id |-> IdOf("h", n), points |-> << <<first, 0>>, <<last, 1>> >>]

Trip(n, route_id, service_id, shape_id, block_id, stop_times) ==
  [trip_id |-> IdOf("t", n), route_id |-> route_id, service_id |-> service_id,
   shape_id |-> shape_id, block_id |-> block_id, original_trip_id |-> None,
   stop_times |-> stop_times]

Transfer(from, to, type) ==
  [from_stop_id |-> from, to_stop_id |-> to, transfer_type |-> type]

\* the sequence listing, in increasing order, the values f[n] of the n in S
RECURSIVE ListOf(_, _)
ListOf(S, f) ==
  IF S = {} THEN <<>>
  ELSE LET n == CHOOSE x \in S : \A y \in S : x <= y
       IN <<f[n]>> \o ListOf(S \ {n}, f)

\* every list of entities with distinct ids among 1..MaxIds, in the order of
\* the ids, the entity of id n being Make(n, x) for an x of Attrs(n); at least
\* `least` entities
Lists(Make(_, _), Attrs(_), least) ==
  UNION {{ListOf(S, [n \in S |-> Make(n, f[n])]) :
            f \in {g \in [S -> UNION {Attrs(n) : n \in S}] :
                     \A n \in S : g[n] \in Attrs(n)}} :
           S \in {T \in SUBSET (1..MaxIds) : Cardinality(T) >= least}}

Cycle(list, i) == list[((i - 1) % Len(list)) + 1]

\* one route per agency, of the agency's number
RoutesFor(agencies) ==
  [i \in DOMAIN agencies |->
     [Route(1, agencies[i].agency_id, Str("n"), None)
        EXCEPT !.route_id = <<"r">> \o Tail(agencies[i].agency_id)]]

\* trips that between them use every route, service period and shape, each
\* calling at every stop
TripsFor(routes, periods, shapes, stops) ==
  [i \in 1..Max(Len(routes), Max(Len(periods), Len(shapes))) |->
     Trip(i, Cycle(routes, i).route_id, Cycle(periods, i).service_id,
          IF shapes = <<>> THEN None ELSE Cycle(shapes, i).shape_id,
          IF i = 1 THEN Str("k") ELSE None,
          [j \in DOMAIN stops |-> stops[j].stop_id])]

\* a transfer from the first stop to the last one and, between several stops,
\* one from the last stop to itself
TransfersFor(stops) ==
  IF stops = <<>> THEN <<>>
  ELSE IF Len(stops) = 1
  THEN <<Transfer(stops[1].stop_id, stops[1].stop_id, 0)>>
  ELSE <<Transfer(stops[1].stop_id, stops[Len(stops)].stop_id, 0),
         Transfer(stops[Len(stops)].stop_id, stops[Len(stops)].stop_id, 0)>>

\* a fare rule of each fare for the first route, between the zones of the
\* first and the last stop
WithRules(fares, routes, stops) ==
  [i \in DOMAIN fares |->
     [fares[i] EXCEPT !.rules =
        <<FareRule(fares[i].fare_id, routes[1].route_id, stops[1].zone_id,
                   stops[Len(stops)].zone_id, None)>>]]

\* a feed: its routes, when not given, belong to its agencies; its trips,
\* transfers and fare rules are those above
Feed(agencies, stops, routes, periods, fares, shapes) ==
  [agency |-> agencies, stop |-> stops, route |-> routes,
   service_period |-> periods, fare |-> WithRules(fares, routes, stops),
   shape |-> shapes, trip |-> TripsFor(routes, periods, shapes, stops),
   transfer |-> TransfersFor(stops)]

BaseAgencies == <<Agency(1, Str("n"), Str("1"))>>
BaseStops == <<Stop(1, <<"A", "b">>, 0, Str("z"), 0, None, Str("d"))>>
BasePeriodsA == <<ServicePeriod(1, 1, 1, EmptyMap)>>
BasePeriodsB == <<ServicePeriod(1, 2, 2, EmptyMap)>>
BaseFares == <<FareAttribute(1, 1, <<>>)>>
BaseShapes == <<Shape(1, 0, 1)>>

Names == {<<"A", "b">>, <<"A", "B">>, <<"c", "d">>}
Zones == {None, Str("z"), Str("y")}

\* Feeds whose agencies vary: present or not, named alike or not; the routes
\* name their agency, or leave agency_id empty when the feed has one agency
AgencyA(n, x) == Agency(n, x, Str("1"))
AgencyAttrsA(n) == {Str("n"), Str("m")}
AgencyB(n, x) == Agency(n, x[1], x[2])
AgencyAttrsB(n) == {Str("n"), Str("m")} \X {Str("1"), Str("2")}

AgencyFeed(agencies, periods, default_agency) ==
  LET routes == RoutesFor(agencies)
  IN Feed(agencies, BaseStops,
          IF default_agency /\ Len(agencies) = 1
          THEN [i \in DOMAIN routes |-> [routes[i] EXCEPT !.agency_id = None]]
          ELSE routes,
          periods, BaseFares, BaseShapes)

AgencyScenarios ==
  {<<AgencyFeed(a, BasePeriodsA, d), AgencyFeed(b, BasePeriodsB, d), 1, 1, TRUE>> :
     <<a, b, d>> \in Lists(AgencyA, AgencyAttrsA, 1)
                     \X Lists(AgencyB, AgencyAttrsB, 1) \X BOOLEAN}

\* Feeds with one stop each, of the same stop_id, whose names, zones,
\* location types and distance vary, under each largest_stop_distance
StopPairScenarios ==
  {<<Feed(BaseAgencies,
          <<Stop(1, x[1], 0, x[2], x[3], None, Str("d"))>>,
          RoutesFor(BaseAgencies), BasePeriodsA, BaseFares, BaseShapes),
     Feed(BaseAgencies,
          <<Stop(1, y[1], y[4], y[2], y[3], None, Str("e"))>>,
          RoutesFor(BaseAgencies), BasePeriodsB, BaseFares, BaseShapes),
     d, 1, TRUE>> :
     <<x, y, d>> \in ({<<"A", "b">>} \X {None, Str("z")} \X {0, 1})
                     \X (Names \X Zones \X {0, 1} \X (0..MaxPos))
                     \X (0..(MaxPos - 1))}

\* Feeds whose stops vary: stop 1 is a station, the others may be its
\* children; zones vary, and B's stops may have moved too far to merge
StopA(n, x) ==
  Stop(n, <<"A", "b">>, 0, x[1], IF n = 1 THEN 1 ELSE 0,
       IF n # 1 /\ x[2] THEN IdOf("s", 1) ELSE None, Str("d"))
StopB(n, x) ==
  Stop(n, <<"A", "b">>, x[3], x[1], IF n = 1 THEN 1 ELSE 0,
       IF n # 1 /\ x[2] THEN IdOf("s", 1) ELSE None, Str("e"))
StopAttrsA(n) ==
  {Str("z"), Str("y")} \X (IF n = 1 THEN {FALSE} ELSE BOOLEAN)
StopAttrsB(n) ==
  {Str("z"), Str("y")} \X (IF n = 1 THEN {FALSE} ELSE BOOLEAN) \X {0, MaxPos}

\* a child's parent_station names a stop of the feed
ParentsPresent(stops) ==
  \A i \in DOMAIN stops :
    stops[i].parent_station # None =>
      \E j \in DOMAIN stops : stops[j].stop_id = stops[i].parent_station

StopScenarios ==
  {<<Feed(BaseAgencies, a, RoutesFor(BaseAgencies), BasePeriodsA, BaseFares,
          BaseShapes),
     Feed(BaseAgencies, b, RoutesFor(BaseAgencies), BasePeriodsB, BaseFares,
          BaseShapes),
     1, 1, TRUE>> :
     <<a, b>> \in {l \in Lists(StopA, StopAttrsA, 1) : ParentsPresent(l)}
                  \X {l \in Lists(StopB, StopAttrsB, 1) : ParentsPresent(l)}}

\* Feeds whose routes vary, with an agency that merges (a1) and one that does
\* not (a2)
TwoAgenciesA == <<Agency(1, Str("n"), Str("1")), Agency(2, Str("n"), Str("1"))>>
TwoAgenciesB == <<Agency(1, Str("n"), Str("2")), Agency(2, Str("m"), Str("2"))>>
RouteA(n, x) == Route(n, IdOf("a", x[1]), Str("n"), x[2])
RouteAttrsA(n) == {1, 2} \X {None, Str("u")}
RouteB(n, x) == Route(n, IdOf("a", x[1][1]), x[1][2], x[2])
RouteAttrsB(n) ==
  ({<<1, Str("n")>>} \X {None, Str("u"), Str("v")})
    \cup ({<<2, Str("n")>>, <<1, Str("m")>>} \X {Str("u")})

RouteScenarios ==
  {<<Feed(TwoAgenciesA, BaseStops, a, BasePeriodsA, BaseFares, BaseShapes),
     Feed(TwoAgenciesB, BaseStops, b, BasePeriodsB, BaseFares, BaseShapes),
     1, 1, TRUE>> :
     <<a, b>> \in Lists(RouteA, RouteAttrsA, 1) \X Lists(RouteB, RouteAttrsB, 1)}

\* Feeds whose service periods vary in id and dates, with and without
\* require_disjoint_calendars
Ranges == {r \in (1..MaxDate) \X (1..MaxDate) : r[1] <= r[2]}
Period(n, x) == ServicePeriod(n, x[1], x[2], EmptyMap)
PeriodAttrs(n) == Ranges

PeriodScenarios ==
  {<<Feed(BaseAgencies, BaseStops, RoutesFor(BaseAgencies), a, BaseFares,
          BaseShapes),
     Feed(BaseAgencies, BaseStops, RoutesFor(BaseAgencies),
          <<Period(b[1], b[2])>>, BaseFares, BaseShapes),
     1, 1, d>> :
     <<a, b, d>> \in Lists(Period, PeriodAttrs, 1)
                     \X ((1..MaxIds) \X Ranges) \X BOOLEAN}

\* Feeds whose fare attributes vary in id and price
Fare(n, x) == FareAttribute(n, x, <<>>)
FareAttrs(n) == {1, 2}

FareScenarios ==
  {<<Feed(BaseAgencies, BaseStops, RoutesFor(BaseAgencies), BasePeriodsA, a,
          BaseShapes),
     Feed(BaseAgencies, BaseStops, RoutesFor(BaseAgencies), BasePeriodsB, b,
          BaseShapes),
     1, 1, TRUE>> :
     <<a, b>> \in Lists(Fare, FareAttrs, 0) \X Lists(Fare, FareAttrs, 0)}

\* Feeds whose shapes vary in id and end points, under each
\* largest_shape_distance
ShapeA(n, x) == Shape(n, 0, MaxPos)
ShapeAttrsA(n) == {0}
ShapeB(n, x) == Shape(n, x[1], x[2])
ShapeAttrsB(n) == ((0..MaxPos) \X {MaxPos}) \cup ({0} \X (0..MaxPos))

ShapeScenarios ==
  {<<Feed(BaseAgencies, BaseStops, RoutesFor(BaseAgencies), BasePeriodsA,
          BaseFares, a),
     Feed(BaseAgencies, BaseStops, RoutesFor(BaseAgencies), BasePeriodsB,
          BaseFares, b),
     1, d, TRUE>> :
     <<a, b, d>> \in Lists(ShapeA, ShapeAttrsA, 0) \X Lists(ShapeB, ShapeAttrsB, 0)
                     \X (0..(MaxPos - 1))}

\* ---------------------------------------------------------- specifications
\* The merge of two feeds by the default mergers, with a TransferMerger added
\* or not.
Start(x) == Construct(x[1], x[2], x[3], x[4], x[5])

Init ==
  /\ \/ \E x \in AgencyScenarios : Start(x)
     \/ \E x \in StopPairScenarios : Start(x)
     \/ \E x \in StopScenarios : Start(x)
     \/ \E x \in RouteScenarios : Start(x)
     \/ \E x \in PeriodScenarios : Start(x)
     \/ \E x \in FareScenarios : Start(x)
     \/ \E x \in ShapeScenarios : Start(x)
  /\ mergers = DefaultMergers

Next ==
  \/ AddTransferMerger
  \/ MergeSchedulesCall
  \/ AgencyMerge
  \/ StopMerge
  \/ RouteMerge
  \/ ServicePeriodMerge
  \/ FareMerge
  \/ TransferMerge
  \/ ShapeMerge
  \/ TripMerge
  \/ FareRuleMerge
  \/ MergeSchedulesReturn

Spec == Init /\ [][Next]_vars

\* merge_schedules over stand-in mergers that fail or not, as in the tests.
InitSeq ==
  /\ Construct(EmptySchedule, EmptySchedule, 1, 1, TRUE)
  /\ mergers = <<>>

NextSeq ==
  \/ AddTestMerger
  \/ MergeSchedulesCall
  \/ TestMerge
  \/ MergeSchedulesReturn

SpecSeq == InitSeq /\ [][NextSeq]_vars

\* generate_id called with arbitrary bases after the merger was made for two
\* feeds whose ids end in numbers, look like generated ids, or neither.
IdPool ==
  {IdOf("a", 1), <<"a", "0", "2">>, Str("a"), <<"1", "0">>,
   Str("a") \o MergedInfix \o FormatInt(3), MergedPrefix \o FormatInt(4)}

Bases == {None, Str("a"), IdOf("a", 1), MergedPrefix \o FormatInt(4)}

BaseEntity(kind) ==
  CASE kind = "agency" -> Agency(1, Str("n"), Str("1"))
    [] kind = "stop" -> Stop(1, <<"A", "b">>, 0, Str("z"), 0, None, Str("d"))
    [] kind = "route" -> Route(1, IdOf("a", 1), Str("n"), None)
    [] kind = "service_period" -> ServicePeriod(1, 1, 1, EmptyMap)
    [] kind = "fare" -> FareAttribute(1, 1, <<>>)
    [] kind = "shape" -> Shape(1, 0, 1)
    [] kind = "trip" -> Trip(1, None, None, None, None, <<>>)

\* a feed with one entity, of the given kind and id
IdFeed(kind, id) ==
  [EmptySchedule EXCEPT ![kind] = <<SetId(kind, BaseEntity(kind), id)>>]

InitId ==
  /\ \E ka \in IdDataSets, ia \in IdPool, kb \in {"stop", "shape"}, ib \in IdPool :
       Construct(IdFeed(ka, ia), IdFeed(kb, ib), 1, 1, TRUE)
  /\ mergers = DefaultMergers

GenerateIdCall == GenerateId(Bases)

NextId == GenerateIdCall

SpecId == InitId /\ [][NextId]_vars

\* ------------------------------------------- feeds merged a second time
\* Feeds some of whose zone ids are themselves the result of a merge: the
\* zone z and the ids generate_id makes from z for the next numbers after
\* the largest number ending an id of the feeds (zone ids are not among the
\* ids find_largest_id_postfix_number reads).
MaxZoneNumber == 3

MergedZones ==
  {Str("z")} \cup {generated_id(n, Str("z")) : n \in MaxIds..(MaxIds + MaxZoneNumber - 1)}

ZoneStopA(n, x) == Stop(n, <<"A", "b">>, 0, x, 0, None, Str("d"))
ZoneStopAttrsA(n) == MergedZones
ZoneStopB(n, x) == Stop(n, <<"A", "b">>, x[2], x[1], 0, None, Str("e"))
ZoneStopAttrsB(n) == MergedZones \X {0, MaxPos}

ZoneScenarios ==
  {<<Feed(BaseAgencies, a, RoutesFor(BaseAgencies), BasePeriodsA, BaseFares,
          BaseShapes),
     Feed(BaseAgencies, b, RoutesFor(BaseAgencies), BasePeriodsB, BaseFares,
          BaseShapes),
     1, 1, TRUE>> :
     <<a, b>> \in Lists(ZoneStopA, ZoneStopAttrsA, 1)
                  \X Lists(ZoneStopB, ZoneStopAttrsB, 1)}

InitZone ==
  /\ \E x \in ZoneScenarios : Start(x)
  /\ mergers = DefaultMergers

SpecZone == InitZone /\ [][Next]_vars

\* ------------------------------------------ fare rules whose zones vary
\* Feeds of one stop and one fare with one fare rule each: the stop's zone
\* and the rule's origin, destination and contained zone vary apart, so a
\* rule may name a zone that no stop of its feed is in.
FareRuleFeed(stop_zone, origin, destination, contains, periods) ==
  [Feed(BaseAgencies,
        <<Stop(1, <<"A", "b">>, 0, stop_zone, 0, None, Str("d"))>>,
        RoutesFor(BaseAgencies), periods, BaseFares, BaseShapes)
     EXCEPT !["fare"][1].rules =
       <<FareRule(IdOf("f", 1), IdOf("r", 1), origin, destination, contains)>>]

FareRuleScenarios ==
  {<<FareRuleFeed(x[1], x[2], x[3], x[4], BasePeriodsA),
     FareRuleFeed(y[1], y[2], None, None, BasePeriodsB),
     1, 1, TRUE>> :
     <<x, y>> \in (Zones \X Zones \X Zones \X Zones) \X (Zones \X Zones)}

InitFareRule ==
  /\ \E x \in FareRuleScenarios : Start(x)
  /\ mergers = DefaultMergers

SpecFareRule == InitFareRule /\ [][Next]_vars

\* ------------------------------------------------- feeds whose trips vary
\* Feeds whose trips vary in id, block and shape; B's stop may have moved too
\* far to merge, so that the stops, like the service periods, get new ids
TripA(n, x) ==
  Trip(n, IdOf("r", 1), IdOf("p", 1), IdOf("h", 1), x, <<IdOf("s", 1)>>)
TripAttrsA(n) == {None, Str("k"), Str("j")}
TripB(n, x) ==
  Trip(n, IdOf("r", 1), IdOf("p", 1), x[2], x[1], <<IdOf("s", 1)>>)
TripAttrsB(n) == {None, Str("k"), Str("j")} \X {None, IdOf("h", 1)}

WithTrips(feed, trips) == [feed EXCEPT !["trip"] = trips]

TripScenarios ==
  {<<WithTrips(Feed(BaseAgencies, BaseStops, RoutesFor(BaseAgencies),
                    BasePeriodsA, BaseFares, BaseShapes), a),
     WithTrips(Feed(BaseAgencies,
                    <<Stop(1, <<"A", "b">>, pos, Str("z"), 0, None, Str("e"))>>,
                    RoutesFor(BaseAgencies), BasePeriodsB, BaseFares,
                    BaseShapes), b),
     1, 1, TRUE>> :
     <<a, b, pos>> \in Lists(TripA, TripAttrsA, 1) \X Lists(TripB, TripAttrsB, 1)
                       \X {0, MaxPos}}

InitTrip ==
  /\ \E x \in TripScenarios : Start(x)
  /\ mergers = DefaultMergers

SpecTrip == InitTrip /\ [][Next]_vars

\* --------------------------------------------- mergers that try all pairs
\* An AgencyMerger and a FareMerger whose merge_data_sets use
\* _merge_different_id, over feeds whose agencies and fares vary.
DifferentIdKinds == {"agency", "fare"}

DifferentIdMerge ==
  \E kind \in DifferentIdKinds :
    RunMerger(kind, DifferentIdMergeDataSets(kind, Cur))

DifferentIdScenarios ==
  {<<Feed(a, BaseStops, RoutesFor(a), BasePeriodsA, fa, BaseShapes),
     Feed(b, BaseStops, RoutesFor(b), BasePeriodsB, fb, BaseShapes),
     1, 1, TRUE>> :
     <<a, b, fa, fb>> \in Lists(AgencyA, AgencyAttrsA, 1)
                          \X Lists(AgencyA, AgencyAttrsA, 1)
                          \X Lists(Fare, FareAttrs, 1) \X Lists(Fare, FareAttrs, 1)}

InitDifferentId ==
  /\ \E x \in DifferentIdScenarios : Start(x)
  /\ mergers = <<[kind |-> "agency"], [kind |-> "fare"]>>

NextDifferentId ==
  \/ MergeSchedulesCall
  \/ DifferentIdMerge
  \/ MergeSchedulesReturn

SpecDifferentId == InitDifferentId /\ [][NextDifferentId]_vars

\* ------------------------------------------------------- register by hand
\* register called, as in the tests, with stops of either feed (or None) and
\* a stop made for the purpose.
MaxObjects == 3

\* transitfeed.Stop(stop_id=...): one more object
NewStop ==
  /\ pc = 0
  /\ Len(heap) < MaxObjects
  /\ heap' = Append(heap, Stop(Len(heap) + 1, Str("n"), 0, None, 0, None, None))
  /\ UNCHANGED <<written, report,
                 a_schedule, b_schedule, merged_schedule, a_merge_map,
                 b_merge_map, a_migrated_entity, b_migrated_entity,
                 a_zone_map, b_zone_map, idnum, mergers, problems, stats,
                 largest_stop_distance, largest_shape_distance,
                 require_disjoint_calendars, pc, called, result, generated,
                 crashed, cutoff, calendars_disjoint>>

RegisterKeys == {NoKey} \cup {Key("stop", n) : n \in 1..MaxIds}

\* self.fm.register(a, b, migrated_entity)
Register(a, b, migrated_entity) ==
  /\ pc = 0
  /\ a_merge_map' = register(Cur, a, b, migrated_entity).a_merge_map
  /\ b_merge_map' = register(Cur, a, b, migrated_entity).b_merge_map
  /\ a_migrated_entity' = register(Cur, a, b, migrated_entity).a_migrated_entity
  /\ b_migrated_entity' = register(Cur, a, b, migrated_entity).b_migrated_entity
  /\ UNCHANGED <<written, report,
                 a_schedule, b_schedule, merged_schedule, heap, a_zone_map,
                 b_zone_map, idnum, mergers, problems, stats,
                 largest_stop_distance, largest_shape_distance,
                 require_disjoint_calendars, pc, called, result, generated,
                 crashed, cutoff, calendars_disjoint>>

RegisterCall ==
  \E a \in RegisterKeys, b \in RegisterKeys, m \in DOMAIN heap :
    Register(a, b, m)

InitReg ==
  /\ Construct(EmptySchedule, EmptySchedule, 1, 1, TRUE)
  /\ mergers = <<>>

NextReg ==
  \/ NewStop
  \/ RegisterCall

SpecReg == InitReg /\ [][NextReg]_vars

\* -------------------------------------------------- calendars of the feeds
\* Python 2 orders None below every number and every number below every
\* string.  A date, a 'YYYYMMDD' string in the code, is a day number from 1
\* on; 0 stands for None and IntZero for the integer 0.
IntZero == -1

Rank(x) == IF x = 0 THEN IntZero - 1 ELSE x

\* max(x, y) and min(x, y) of Python 2
PyMax(x, y) == IF Rank(y) > Rank(x) THEN y ELSE x
PyMin(x, y) == IF Rank(y) < Rank(x) THEN y ELSE x

\* '9' * 8: a date after every date of a feed
Forever == MaxDate + 2

truncate_period_keep_exceptions(service_period, start, end) ==
  [service_period EXCEPT
     !.start_date = PyMax(@, start),
     !.end_date = PyMin(@, end)]

\* disjoin_calendars.truncate_period
truncate_period(service_period, start, end) ==
  [service_period EXCEPT
     !.start_date = PyMax(@, start),
     !.end_date = PyMin(@, end),
     !.date_exceptions =
        [k \in {d \in DOMAIN @ : ~(Rank(d) < Rank(start) \/ Rank(d) > Rank(end))}
           |-> @[k]]]

\* the cutoff dates explored: the day before is a date too
Cutoffs == 2..MaxDate

\* ServicePeriodMerger.disjoin_calendars(cutoff), called as main calls it:
\* once, before merge_schedules
DisjoinCalendars(c) ==
  /\ pc = 0
  /\ cutoff = 0
  /\ a_schedule' =
       [a_schedule EXCEPT !["service_period"] =
          [i \in DOMAIN @ |-> truncate_period(@[i], IntZero, c - 1)]]
  /\ b_schedule' =
       [b_schedule EXCEPT !["service_period"] =
          [i \in DOMAIN @ |-> truncate_period(@[i], c, Forever)]]
  /\ cutoff' = c
  /\ UNCHANGED <<written, report,
                 merged_schedule, heap, a_merge_map, b_merge_map,
                 a_migrated_entity, b_migrated_entity, a_zone_map, b_zone_map,
                 idnum, mergers, problems, stats, Config, pc, called, result,
                 generated, crashed, calendars_disjoint>>

DisjoinCalendarsCall == \E c \in Cutoffs : DisjoinCalendars(c)

\* ServicePeriodMerger.check_disjoint_calendars called on the calendars as
\* they were loaded
CheckDisjointCalendars ==
  /\ pc = 0
  /\ cutoff = 0
  /\ calendars_disjoint = "none"
  /\ calendars_disjoint' = IF check_disjoint_calendars THEN "true" ELSE "false"
  /\ UNCHANGED <<written, report,
                 a_schedule, b_schedule, merged_schedule, heap, a_merge_map,
                 b_merge_map, a_migrated_entity, b_migrated_entity, a_zone_map,
                 b_zone_map, idnum, mergers, problems, stats, Config, pc,
                 called, result, generated, crashed, cutoff>>

\* Service periods as a loader leaves them: with a start and an end date, or
\* with neither when the service is known from calendar_dates.txt alone; some
\* dates added (1), or one date removed (2)
AddedDates == {[d \in S |-> 1] : S \in SUBSET (1..MaxDate)}
RemovedDate == {[d \in {x} |-> 2] : x \in 1..MaxDate}
OneDate == {[d \in {x[1]} |-> x[2]] : x \in (1..MaxDate) \X {1, 2}}

CalPeriod(n, r, exceptions) == ServicePeriod(n, r[1], r[2], exceptions)

CalendarScenarios ==
  {<<[EmptySchedule EXCEPT !["service_period"] =
        <<CalPeriod(1, x[1], x[2])>>
          \o (IF x[3] THEN <<ServicePeriod(2, 1, 1, EmptyMap)>> ELSE <<>>)],
     [EmptySchedule EXCEPT !["service_period"] = <<CalPeriod(1, y[1], y[2])>>],
     1, 1, TRUE>> :
     <<x, y>> \in ((Ranges \cup {<<0, 0>>}) \X (AddedDates \cup RemovedDate)
                     \X BOOLEAN)
                  \X ((Ranges \cup {<<0, 0>>}) \X ({EmptyMap} \cup OneDate))}

InitCal ==
  /\ \E x \in CalendarScenarios : Start(x)
  /\ mergers = DefaultMergers

\* Feeds whose service periods all have a start and an end date
DatedScenarios ==
  {x \in CalendarScenarios :
     /\ \A i \in DOMAIN x[1]["service_period"] :
          x[1]["service_period"][i].start_date # 0
     /\ \A j \in DOMAIN x[2]["service_period"] :
          x[2]["service_period"][j].start_date # 0}

\* ServicePeriodMerger.check_disjoint_calendars called after
\* disjoin_calendars(cutoff)
CheckDisjointCalendarsAfter ==
  /\ pc = 0
  /\ cutoff # 0
  /\ calendars_disjoint = "none"
  /\ calendars_disjoint' = IF check_disjoint_calendars THEN "true" ELSE "false"
  /\ UNCHANGED <<written, report,
                 a_schedule, b_schedule, merged_schedule, heap, a_merge_map,
                 b_merge_map, a_migrated_entity, b_migrated_entity, a_zone_map,
                 b_zone_map, idnum, mergers, problems, stats, Config, pc,
                 called, result, generated, crashed, cutoff>>

InitDisjoin ==
  /\ \E x \in DatedScenarios : Start(x)
  /\ mergers = DefaultMergers

NextDisjoin ==
  \/ DisjoinCalendarsCall
  \/ CheckDisjointCalendarsAfter

SpecDisjoin == InitDisjoin /\ [][NextDisjoin]_vars

NextCal ==
  \/ DisjoinCalendarsCall
  \/ CheckDisjointCalendars

SpecCal == InitCal /\ [][NextCal]_vars

\* ------------------------------------------------------------------- main
\* main, `if feed_merger.merge_schedules():` taken as if the call returned
\* True whatever it returned
WriteGoogleTransitFeedAlways ==
  /\ result # "none"
  /\ ~written
  /\ report = "none"
  /\ written' = TRUE
  /\ UNCHANGED <<a_schedule, b_schedule, merged_schedule, heap, a_merge_map,
                 b_merge_map, a_migrated_entity, b_migrated_entity, a_zone_map,
                 b_zone_map, idnum, mergers, problems, stats, Config, cutoff,
                 calendars_disjoint, pc, called, result, generated, crashed,
                 report>>

\* main: merge_schedules returned True and
\* get_merged_schedule().write_google_transit_feed(merged_feed_path) is called
WriteGoogleTransitFeed ==
  /\ result = "true"
  /\ ~written
  /\ report = "none"
  /\ written' = TRUE
  /\ UNCHANGED <<a_schedule, b_schedule, merged_schedule, heap, a_merge_map,
                 b_merge_map, a_migrated_entity, b_migrated_entity, a_zone_map,
                 b_zone_map, idnum, mergers, problems, stats, Config, cutoff,
                 calendars_disjoint, pc, called, result, generated, crashed,
                 report>>

\* main: accumulator.write_output(..., merged_feed_path), after the feed was
\* written or, merge_schedules having returned False, merged_feed_path was
\* set to None
WriteOutput ==
  /\ report = "none"
  /\ \/ result = "true" /\ written
     \/ result = "false"
  /\ report' = IF result = "true" THEN "merged_feed_path" ELSE "None"
  /\ UNCHANGED <<a_schedule, b_schedule, merged_schedule, heap, a_merge_map,
                 b_merge_map, a_migrated_entity, b_migrated_entity, a_zone_map,
                 b_zone_map, idnum, mergers, problems, stats, Config, cutoff,
                 calendars_disjoint, pc, called, result, generated, crashed,
                 written>>

\* main over feeds of one service period each, whose dates vary, with or
\* without a cutoff date
MainScenarios ==
  {<<Feed(BaseAgencies, BaseStops, RoutesFor(BaseAgencies),
          <<Period(1, a)>>, BaseFares, BaseShapes),
     Feed(BaseAgencies, BaseStops, RoutesFor(BaseAgencies),
          <<Period(1, b)>>, BaseFares, BaseShapes),
     1, 1, d>> :
     <<a, b, d>> \in Ranges \X Ranges \X BOOLEAN}

InitMain ==
  /\ \E x \in MainScenarios : Start(x)
  /\ mergers = DefaultMergers

NextMain ==
  \/ DisjoinCalendarsCall
  \/ Next
  \/ WriteGoogleTransitFeed
  \/ WriteOutput

\* main runs on after merge_schedules returned: its remaining steps are taken
SpecMain ==
  /\ InitMain
  /\ [][NextMain]_vars
  /\ WF_vars(WriteGoogleTransitFeed)
  /\ WF_vars(WriteOutput)

\* ------------------------------------------------------------- properties
IsPrefix(short, long) ==
  /\ Len(short) <= Len(long)
  /\ \A i \in DOMAIN short : short[i] = long[i]

\* C1: merge_schedules calls the mergers in the order they were added: the
\* mergers called are always a prefix of the registered list; no merger is
\* called after one that returned False; merge_schedules returns False
\* exactly when the last merger called returned False, and returns True only
\* after every merger was called and none returned False.
C1_MergeSchedulesSequence ==
  /\ IsPrefix(called, mergers)
  /\ \A i \in DOMAIN called : i < Len(called) => ~called[i].should_fail
  /\ (result = "false") =
       (called # <<>> /\ called[Len(called)].should_fail)
  /\ result = "true" =>
       /\ called = mergers
       /\ \A i \in DOMAIN mergers : ~mergers[i].should_fail

\* a merger returned False after another was called, and a later one is left
\* uncalled
C1_Witness ==
  /\ result = "false"
  /\ Len(called) >= 2
  /\ Len(called) < Len(mergers)

InputIds ==
  ScheduleIds(a_schedule, IdDataSets) \cup ScheduleIds(b_schedule, IdDataSets)

\* C6: no id returned by generate_id is an agency_id, stop_id, route_id,
\* trip_id, service_id, fare_id or shape_id of either feed, no two calls return
\* the same id, and the number ending the first generated id is larger than
\* the number ending any of those ids.
C6_GeneratedIdsAreFresh ==
  /\ \A i \in DOMAIN generated : generated[i] \notin InputIds
  /\ \A i, j \in DOMAIN generated : i # j => generated[i] # generated[j]
  /\ generated # <<>> =>
       \A id \in InputIds :
         ParseInt(PostfixDigits(generated[1])) > ParseInt(PostfixDigits(id))

\* two ids were generated, from a base that is an id of a feed which also
\* holds an id that looks like a generated one
C6_Witness ==
  /\ Len(generated) = 2
  /\ \E id \in InputIds : id = Str("a") \o MergedInfix \o FormatInt(3)
  /\ \E id \in InputIds : id # None /\ IsPrefix(id, generated[1])

\* the dates from the first to the last day of a service period's date range
RangeDates(period) == get_date_range(period)[1]..get_date_range(period)[2]

\* some service period of A and some service period of B overlap
CalendarsOverlap ==
  \E i \in DOMAIN a_schedule["service_period"] :
    \E j \in DOMAIN b_schedule["service_period"] :
      RangeDates(a_schedule["service_period"][i])
        \cap RangeDates(b_schedule["service_period"][j]) # {}

KindsCalled == {called[i].kind : i \in DOMAIN called}

HasProblem(name, kind) ==
  \E i \in DOMAIN problems :
    problems[i].problem = name /\ problems[i].kind = kind

\* the step of merge_schedules that runs the ServicePeriodMerger
ServicePeriodStep == called' = Append(called, [kind |-> "service_period"])

\* every service period of both feeds has a migrated counterpart in the output
ServicePeriodsMigrated(out, a_map, b_map) ==
  /\ \A i \in DOMAIN a_schedule["service_period"] :
       /\ Key("service_period", i) \in DOMAIN a_map
       /\ \E n \in DOMAIN out["service_period"] :
            out["service_period"][n] = a_map[Key("service_period", i)]
  /\ \A j \in DOMAIN b_schedule["service_period"] :
       /\ Key("service_period", j) \in DOMAIN b_map
       /\ \E n \in DOMAIN out["service_period"] :
            out["service_period"][n] = b_map[Key("service_period", j)]

C2_Step ==
  ServicePeriodStep /\ CalendarsOverlap =>
    IF require_disjoint_calendars
    THEN /\ problems' = Append(problems, [problem |-> "calendars_not_disjoint",
                                          kind |-> "service_period"])
         /\ result' = "false"
         /\ UNCHANGED <<merged_schedule, heap, a_merge_map, b_merge_map,
                        a_migrated_entity, b_migrated_entity, idnum>>
    ELSE /\ result' = "none"
         /\ pc' = pc + 1
         /\ ServicePeriodsMigrated(merged_schedule', a_merge_map', b_merge_map')

C2_State ==
  /\ result = "false" =>
       /\ require_disjoint_calendars /\ CalendarsOverlap
       /\ called[Len(called)].kind = "service_period"
       /\ KindsCalled \cap {"fare", "shape", "trip", "fare_rule"} = {}
       /\ \A k \in {"service_period", "fare", "shape", "trip", "fare_rule"} :
            merged_schedule[k] = <<>>
  /\ result = "true" /\ CalendarsOverlap =>
       /\ ~require_disjoint_calendars
       /\ {"fare", "shape", "trip", "fare_rule"} \subseteq KindsCalled
       /\ ~HasProblem("calendars_not_disjoint", "service_period")

\* C2: when the calendars of the two feeds overlap and
\* require_disjoint_calendars is set, the ServicePeriodMerger reports
\* calendars_not_disjoint and returns False leaving the output schedule and
\* the merge maps as they were, merge_schedules returns False and the fare,
\* shape, trip and fare rule mergers are never run; when it is not set, the
\* service periods are migrated, the merger returns True and the later
\* mergers run.
C2_DisjointCalendarsRequired == []C2_State /\ [][C2_Step]_vars

\* merge_schedules returned False for feeds whose calendars overlap
C2_Witness ==
  /\ result = "false"
  /\ CalendarsOverlap
  /\ HasProblem("calendars_not_disjoint", "service_period")

\* the kinds of entity a registered merger handles
RegisteredKinds == {mergers[i].kind : i \in DOMAIN mergers} \cap Kinds

InOutput(kind, obj) ==
  \E n \in DOMAIN merged_schedule[kind] : merged_schedule[kind][n] = obj

\* the i-th entity of a kind of one feed is in the feed's merge map, mapped to
\* an entity of the output that is also its _migrated_entity
Mapped(side, kind, i) ==
  /\ Key(kind, i) \in DOMAIN MergeMap(Cur, side)
  /\ InOutput(kind, MergeMap(Cur, side)[Key(kind, i)])
  /\ Key(kind, i) \in DOMAIN MigratedEntity(Cur, side)
  /\ MigratedEntity(Cur, side)[Key(kind, i)] = MergeMap(Cur, side)[Key(kind, i)]

\* the stop_id the stop of a feed has in the output
MigratedStopId(side, stop_id) ==
  IF stop_id = None THEN None
  ELSE heap[MergeMap(Cur, side)[
         Key("stop", GetById("stop", Sched(side), stop_id))]].stop_id

\* the (from_stop_id, to_stop_id) a transfer of a feed migrates to
MigratedTransferId(side, transfer) ==
  <<MigratedStopId(side, transfer.from_stop_id),
    MigratedStopId(side, transfer.to_stop_id)>>

\* the i-th transfer of A migrates to the stops some transfer of B migrates to
TransferOfBWins(i) ==
  \E j \in DOMAIN b_schedule["transfer"] :
    MigratedTransferId("b", b_schedule["transfer"][j])
      = MigratedTransferId("a", a_schedule["transfer"][i])

Output(kind) == {heap[merged_schedule[kind][n]] : n \in DOMAIN merged_schedule[kind]}

OutputIds(kind) == {GetId(kind, e) : e \in Output(kind)}

\* C4: after a run of the default mergers returned True, every route's
\* agency_id, every stop's parent_station, every trip's route_id, service_id
\* and shape_id, every stop time's stop and every fare rule's fare_id and
\* route_id names an entity of the output schedule.
C4_OutputReferentiallyClosed ==
  result = "true" =>
    /\ \A r \in Output("route") : r.agency_id \in OutputIds("agency")
    /\ \A st \in Output("stop") :
         st.parent_station # None => st.parent_station \in OutputIds("stop")
    /\ \A tr \in Output("trip") :
         /\ tr.route_id \in OutputIds("route")
         /\ tr.service_id \in OutputIds("service_period")
         /\ tr.shape_id # None => tr.shape_id \in OutputIds("shape")
         /\ \A n \in DOMAIN tr.stop_times : InOutput("stop", tr.stop_times[n])
    /\ \A fr \in Output("fare_rule") :
         /\ fr.fare_id \in OutputIds("fare")
         /\ fr.route_id # None => fr.route_id \in OutputIds("route")

\* a run returned True whose output has a stop under a parent that was given a
\* new id, trips and fare rules
C4_Witness ==
  /\ result = "true"
  /\ \E st \in Output("stop") :
       /\ st.parent_station # None
       /\ st.parent_station \notin ScheduleIds(a_schedule, {"stop"})
  /\ Output("trip") # {}
  /\ Output("fare_rule") # {}

\* the kinds merged with the same-id strategy
SameIdKinds == {"agency", "stop", "route", "service_period", "fare", "shape",
                "trip"}

\* C5: no two entities of a kind merged with the same-id strategy have the
\* same id in the output schedule, also when a pair of the same id failed to
\* merge and both entities were given new ids.
C5_OutputIdsUnique ==
  \A kind \in SameIdKinds :
    \A n, m \in DOMAIN merged_schedule[kind] :
      n # m => GetId(kind, heap[merged_schedule[kind][n]])
                 # GetId(kind, heap[merged_schedule[kind][m]])

\* the output holds two agencies that both come from agencies of the same id
C5_Witness ==
  \E i \in DOMAIN a_schedule["agency"], j \in DOMAIN b_schedule["agency"] :
    /\ a_schedule["agency"][i].agency_id = b_schedule["agency"][j].agency_id
    /\ Mapped("a", "agency", i) /\ Mapped("b", "agency", j)
    /\ a_merge_map[Key("agency", i)] # b_merge_map[Key("agency", j)]

OtherSide(side) == IF side = "a" THEN "b" ELSE "a"

\* the i-th entity of a feed was migrated on its own: no entity of the other
\* feed is mapped to its migrated counterpart
MigratedAlone(side, kind, i) ==
  /\ Key(kind, i) \in DOMAIN MergeMap(Cur, side)
  /\ \A k \in DOMAIN MergeMap(Cur, OtherSide(side)) :
       MergeMap(Cur, OtherSide(side))[k] # MergeMap(Cur, side)[Key(kind, i)]

\* the id of the migrated counterpart of the i-th entity of a feed
MigratedId(side, kind, i) ==
  GetId(kind, heap[MergeMap(Cur, side)[Key(kind, i)]])

\* an id made by generate_id from the base id
IsGeneratedFrom(id, base) ==
  /\ IsPrefix(base \o MergedInfix, id)
  /\ Len(id) > Len(base \o MergedInfix)
  /\ PostfixDigits(id) = SubSeq(id, Len(base \o MergedInfix) + 1, Len(id))

\* C7: in the same-id strategy an entity migrated without being merged has a
\* generated id if and only if the other feed has an entity of its kind and
\* id; otherwise its id in the output is its original id.  This holds for the
\* entities of A and of B alike.
C7_NewIdIffIdInOtherFeed ==
  \A side \in {"a", "b"}, kind \in SameIdKinds :
    \A i \in DOMAIN Sched(side)[kind] :
      MigratedAlone(side, kind, i) =>
        IF GetId(kind, Sched(side)[kind][i])
             \in ScheduleIds(Sched(OtherSide(side)), {kind})
        THEN IsGeneratedFrom(MigratedId(side, kind, i),
                             GetId(kind, Sched(side)[kind][i]))
        ELSE MigratedId(side, kind, i) = GetId(kind, Sched(side)[kind][i])

\* of a kind, an entity of A was migrated under its own id while one of A and
\* one of B were migrated under new ids
C7_Witness ==
  \E kind \in SameIdKinds :
    /\ \E i \in DOMAIN a_schedule[kind] :
         /\ MigratedAlone("a", kind, i)
         /\ MigratedId("a", kind, i) = GetId(kind, a_schedule[kind][i])
    /\ \E i \in DOMAIN a_schedule[kind] :
         /\ MigratedAlone("a", kind, i)
         /\ MigratedId("a", kind, i) # GetId(kind, a_schedule[kind][i])
    /\ \E j \in DOMAIN b_schedule[kind] :
         /\ MigratedAlone("b", kind, j)
         /\ MigratedId("b", kind, j) # GetId(kind, b_schedule[kind][j])

\* --------------------------------------------- same-id pairs: the outcome
\* the kinds whose _merge_entities can merge two entities of one id
MergingKinds == {"agency", "stop", "route", "fare", "shape"}

\* the merger of a kind has run to its end
Done(kind) == kind \in KindsCalled /\ ~crashed

\* (i, j): the i-th entity of A and the j-th of B, of one kind, have one id
SameIdPairs(kind) ==
  {p \in (DOMAIN a_schedule[kind]) \X (DOMAIN b_schedule[kind]) :
     GetId(kind, a_schedule[kind][p[1]]) = GetId(kind, b_schedule[kind][p[2]])}

\* two stops are near enough, named alike up to case, of one zone and one
\* location type
StopsAlike(a, b) ==
  /\ ApproximateDistance(a.stop_pos, b.stop_pos) <= largest_stop_distance
  /\ Lower(a.stop_name) = Lower(b.stop_name)
  /\ a.zone_id = b.zone_id
  /\ a.location_type = b.location_type

\* the migrated counterpart of the agency a route belongs to in its feed
MigratedAgency(side, route) ==
  heap[MergeMap(Cur, side)[
    Key("agency", ResolveAgency(Sched(side), route.agency_id))]]

\* two optional values agree: one is missing or they are equal
Compatible(x, y) == x = None \/ y = None \/ x = y

\* what the input says about a pair of one id: its entities can be merged
PairMerges(kind, a, b) ==
  CASE kind = "agency" ->
         /\ a.agency_name = b.agency_name
         /\ a.agency_url = b.agency_url
         /\ a.agency_timezone = b.agency_timezone
    [] kind = "stop" -> StopsAlike(a, b)
    [] kind = "route" ->
         /\ a.route_short_name = b.route_short_name
         /\ a.route_long_name = b.route_long_name
         /\ a.route_type = b.route_type
         /\ MigratedAgency("a", a) = MigratedAgency("b", b)
         /\ Compatible(a.route_url, b.route_url)
         /\ Compatible(a.route_color, b.route_color)
         /\ Compatible(a.route_text_color, b.route_text_color)
    [] kind = "fare" ->
         /\ a.price = b.price
         /\ a.currency_type = b.currency_type
         /\ a.payment_method = b.payment_method
         /\ a.transfers = b.transfers
         /\ a.transfer_duration = b.transfer_duration
    [] kind = "shape" -> ShapeDistance(a, b) <= largest_shape_distance
    [] OTHER -> FALSE

MergingPairs(kind) ==
  {p \in SameIdPairs(kind) :
     PairMerges(kind, a_schedule[kind][p[1]], b_schedule[kind][p[2]])}

FailingPairs(kind) == SameIdPairs(kind) \ MergingPairs(kind)

\* the same_id_but_not_merged problems reported for an id of a kind
NotMergedProblems(kind, id) ==
  {n \in DOMAIN problems :
     /\ problems[n].problem = "same_id_but_not_merged"
     /\ problems[n].kind = kind
     /\ problems[n].id = id}

\* C8: once the merger of agencies, stops, routes, fare attributes or shapes
\* has run, for every pair of one id that could not be merged exactly one
\* same_id_but_not_merged problem with that id was reported, each of the two
\* entities was migrated on its own into an entity of the output, the two
\* output entities are distinct and have different ids, the pair is counted
\* in not_merged_a and in not_merged_b and not in merged, and every other
\* entity of the kind was processed too.
C8_FailedPairMigratedApart ==
  \A kind \in MergingKinds :
    Done(kind) =>
      /\ \A p \in FailingPairs(kind) :
           /\ Cardinality(NotMergedProblems(kind,
                GetId(kind, a_schedule[kind][p[1]]))) = 1
           /\ Mapped("a", kind, p[1]) /\ Mapped("b", kind, p[2])
           /\ MigratedAlone("a", kind, p[1]) /\ MigratedAlone("b", kind, p[2])
           /\ a_merge_map[Key(kind, p[1])] # b_merge_map[Key(kind, p[2])]
           /\ MigratedId("a", kind, p[1]) # MigratedId("b", kind, p[2])
      /\ stats[kind] =
           <<Cardinality(MergingPairs(kind)),
             Len(a_schedule[kind]) - Cardinality(MergingPairs(kind)),
             Len(b_schedule[kind]) - Cardinality(MergingPairs(kind))>>
      /\ \A i \in DOMAIN a_schedule[kind] : Mapped("a", kind, i)
      /\ \A j \in DOMAIN b_schedule[kind] : Mapped("b", kind, j)

\* of a kind, a pair of one id failed to merge before another pair merged,
\* and the run came to its end
C8_Witness ==
  /\ result = "true"
  /\ \E kind \in MergingKinds :
       /\ Done(kind)
       /\ \E p \in FailingPairs(kind), q \in MergingPairs(kind) : p[1] < q[1]

\* ------------------------------------------------ same-id pairs that merge
\* the attributes of the entities of a kind (the fare rules of a fare
\* attribute are rows of their own, merged by the FareRuleMerger)
FieldNames(kind) ==
  CASE kind = "agency" -> {"agency_id", "agency_name", "agency_url",
                           "agency_timezone", "agency_phone"}
    [] kind = "stop" -> {"stop_id", "stop_name", "stop_pos", "zone_id",
                         "location_type", "parent_station", "stop_desc"}
    [] kind = "route" -> {"route_id", "agency_id", "route_short_name",
                          "route_long_name", "route_type", "route_url",
                          "route_color", "route_text_color"}
    [] kind = "fare" -> {"fare_id", "price", "currency_type",
                         "payment_method", "transfers", "transfer_duration"}
    [] kind = "shape" -> {"shape_id", "points"}

\* the scheme _merge_entities hands to _schemed_merge; a shape has none
SchemeOf(kind) ==
  CASE kind = "agency" -> AgencyScheme
    [] kind = "stop" -> StopScheme
    [] kind = "route" -> RouteScheme
    [] kind = "fare" -> FareScheme
    [] kind = "shape" -> <<>>

\* the attributes the merge scheme of a kind does not name
UnschemedFields(kind) ==
  FieldNames(kind) \ {SchemeOf(kind)[n][1] : n \in DOMAIN SchemeOf(kind)}

\* the pair p of a kind has one entity of the output: both merge maps give
\* it, the output holds it once, no other entity is mapped to it, and its id
\* is the id the two entities share
MergedIntoOne(kind, p) ==
  /\ Mapped("a", kind, p[1]) /\ Mapped("b", kind, p[2])
  /\ a_merge_map[Key(kind, p[1])] = b_merge_map[Key(kind, p[2])]
  /\ Cardinality({n \in DOMAIN merged_schedule[kind] :
                    merged_schedule[kind][n] = b_merge_map[Key(kind, p[2])]}) = 1
  /\ \A k \in DOMAIN a_merge_map :
       a_merge_map[k] = a_merge_map[Key(kind, p[1])] => k = Key(kind, p[1])
  /\ \A k \in DOMAIN b_merge_map :
       b_merge_map[k] = b_merge_map[Key(kind, p[2])] => k = Key(kind, p[2])
  /\ MigratedId("b", kind, p[2]) = GetId(kind, b_schedule[kind][p[2]])

\* the entity of the output a pair was merged into
MergedEntity(kind, p) == heap[b_merge_map[Key(kind, p[2])]]

\* two feeds with one agency each, the same in every attribute, give one
\* agency and the statistics (1, 0, 0)
IdenticalAgenciesMerge ==
  (/\ Done("agency")
   /\ Len(a_schedule["agency"]) = 1 /\ Len(b_schedule["agency"]) = 1
   /\ a_schedule["agency"][1] = b_schedule["agency"][1])
    => /\ Len(merged_schedule["agency"]) = 1
       /\ stats["agency"] = <<1, 0, 0>>

\* C9 as stated: for every pair of one id that merges there is one entity of
\* the output, mapped from both, under the shared id, counted once as merged,
\* and every attribute the merge scheme does not name has B's value.
C9_UnschemedFieldsAreBs ==
  /\ \A kind \in MergingKinds :
       Done(kind) =>
         /\ \A p \in MergingPairs(kind) :
              /\ MergedIntoOne(kind, p)
              /\ \A f \in UnschemedFields(kind) :
                   MergedEntity(kind, p)[f] = b_schedule[kind][p[2]][f]
         /\ stats[kind][1] = Cardinality(MergingPairs(kind))
  /\ IdenticalAgenciesMerge

\* C9: for every pair of one id that merges there is one entity of the
\* output, mapped from both, under the shared id, counted once as merged;
\* every attribute the merge scheme does not name has B's value, except the
\* parent_station of a merged stop, which is the stop_id B's parent station
\* has in the output.
C9_MergedPairIsOneEntity ==
  /\ \A kind \in MergingKinds :
       Done(kind) =>
         /\ \A p \in MergingPairs(kind) :
              /\ MergedIntoOne(kind, p)
              /\ \A f \in UnschemedFields(kind) :
                   MergedEntity(kind, p)[f] =
                     IF f = "parent_station"
                     THEN MigratedStopId("b", b_schedule[kind][p[2]][f])
                     ELSE b_schedule[kind][p[2]][f]
         /\ stats[kind][1] = Cardinality(MergingPairs(kind))
  /\ IdenticalAgenciesMerge

\* a stop of A and a stop of B were merged, B's stop being the child of a
\* station that was migrated under a new id; B's description, which differs
\* from A's, is the merged stop's
C9_Witness ==
  /\ result = "true"
  /\ \E p \in MergingPairs("stop") :
       /\ b_schedule["stop"][p[2]].parent_station # None
       /\ MergedEntity("stop", p).parent_station
            # b_schedule["stop"][p[2]].parent_station
       /\ MergedEntity("stop", p).stop_desc = b_schedule["stop"][p[2]].stop_desc
       /\ a_schedule["stop"][p[1]].stop_desc # b_schedule["stop"][p[2]].stop_desc

OutputTransfers(id) ==
  {n \in DOMAIN merged_schedule["transfer"] :
     GetId("transfer", heap[merged_schedule["transfer"][n]]) = id}

\* a stop of A and a stop of B, both of the given stop_id, were merged
StopMerged(stop_id) ==
  /\ GetById("stop", a_schedule, stop_id) # 0
  /\ GetById("stop", b_schedule, stop_id) # 0
  /\ a_merge_map[Key("stop", GetById("stop", a_schedule, stop_id))]
       = b_merge_map[Key("stop", GetById("stop", b_schedule, stop_id))]

\* the i-th transfer of A and the j-th of B join the same stops of their feeds
SameTransfer(i, j) ==
  GetId("transfer", a_schedule["transfer"][i])
    = GetId("transfer", b_schedule["transfer"][j])

DisjoinStep == cutoff = 0 /\ cutoff' # 0

\* q has the date exceptions of p that fall on the dates of S, and no other
ExceptionsKept(p, q, S) ==
  /\ DOMAIN q.date_exceptions = DOMAIN p.date_exceptions \cap S
  /\ \A d \in DOMAIN q.date_exceptions :
       q.date_exceptions[d] = p.date_exceptions[d]

\* disjoin_calendars(c) made the service period q of feed A out of p
TruncatedA(p, q, c) ==
  /\ q.end_date = IF p.end_date = 0 THEN 0 ELSE Min(p.end_date, c - 1)
  /\ ExceptionsKept(p, q, 1..(c - 1))

\* disjoin_calendars(c) made the service period q of feed B out of p
TruncatedB(p, q, c) ==
  /\ q.start_date = Max(p.start_date, c)
  /\ q.end_date = p.end_date
  /\ ExceptionsKept(p, q, c..Forever)

\* C12: disjoin_calendars(cutoff) leaves every service period of A with its
\* start_date, with the earlier of its end_date and the day before the cutoff
\* as end_date, and with its date exceptions before the cutoff and no other;
\* it leaves every service period of B with the later of its start_date and
\* the cutoff as start_date, with its end_date, and with its date exceptions
\* on or after the cutoff and no other.
C12_DisjoinTruncates ==
  [][DisjoinStep =>
       /\ DOMAIN a_schedule'["service_period"] = DOMAIN a_schedule["service_period"]
       /\ DOMAIN b_schedule'["service_period"] = DOMAIN b_schedule["service_period"]
       /\ \A i \in DOMAIN a_schedule["service_period"] :
            /\ a_schedule'["service_period"][i].start_date
                 = a_schedule["service_period"][i].start_date
            /\ TruncatedA(a_schedule["service_period"][i],
                          a_schedule'["service_period"][i], cutoff')
       /\ \A j \in DOMAIN b_schedule["service_period"] :
            TruncatedB(b_schedule["service_period"][j],
                       b_schedule'["service_period"][j], cutoff')]_vars

\* What holds of disjoin_calendars: the same, but only a service period of A
\* that has a start_date keeps it; one without gets the integer 0
C12_DisjoinTruncatesDated ==
  [][DisjoinStep =>
       /\ \A i \in DOMAIN a_schedule["service_period"] :
            /\ a_schedule'["service_period"][i].start_date
                 = IF a_schedule["service_period"][i].start_date = 0
                   THEN IntZero
                   ELSE a_schedule["service_period"][i].start_date
            /\ TruncatedA(a_schedule["service_period"][i],
                          a_schedule'["service_period"][i], cutoff')
       /\ \A j \in DOMAIN b_schedule["service_period"] :
            TruncatedB(b_schedule["service_period"][j],
                       b_schedule'["service_period"][j], cutoff')]_vars

\* disjoin_calendars shortened a service period of A and one of B and took a
\* date exception away from A's while keeping another
C12_Witness ==
  /\ cutoff # 0
  /\ \E i \in DOMAIN a_schedule["service_period"] :
       /\ a_schedule["service_period"][i].start_date > 0
       /\ a_schedule["service_period"][i].end_date = cutoff - 1
       /\ DOMAIN a_schedule["service_period"][i].date_exceptions # {}
  /\ \E j \in DOMAIN b_schedule["service_period"] :
       b_schedule["service_period"][j].start_date = cutoff

\* The days a service period covers according to the claim: from its first to
\* its last day, counting its start date, its end date and every date an
\* exception adds service on; no day at all when it has none of these
DatesOf(p) ==
  ({p.start_date, p.end_date} \ {0})
    \cup {d \in DOMAIN p.date_exceptions : p.date_exceptions[d] = 1}

DaysOf(p) ==
  IF DatesOf(p) = {} THEN {}
  ELSE {d \in 1..MaxDate : /\ \E lo \in DatesOf(p) : lo <= d
                           /\ \E hi \in DatesOf(p) : d <= hi}

SharedDay ==
  \E i \in DOMAIN a_schedule["service_period"] :
    \E j \in DOMAIN b_schedule["service_period"] :
      DaysOf(a_schedule["service_period"][i])
        \cap DaysOf(b_schedule["service_period"][j]) # {}

Checked == calendars_disjoint # "none" /\ cutoff = 0

\* C13: check_disjoint_calendars returns False exactly when some service
\* period of A and some service period of B have date ranges (widened by the
\* exceptions that add service) sharing at least one day; adjacent ranges
\* are disjoint and a single shared day is an overlap.
C13_DisjointIffNoSharedDay ==
  Checked => (calendars_disjoint = "false" <=> SharedDay)

HasDays(schedule) ==
  \A i \in DOMAIN schedule["service_period"] :
    DaysOf(schedule["service_period"][i]) # {}

\* The same for calendars in which one feed at least has no service period
\* without any day
C13_DisjointIffNoSharedDayDated ==
  (Checked /\ (HasDays(a_schedule) \/ HasDays(b_schedule)))
    => (calendars_disjoint = "false" <=> SharedDay)

\* a single shared day was found to be an overlap
C13_Witness ==
  /\ Checked
  /\ calendars_disjoint = "false"
  /\ HasDays(a_schedule)
  /\ \E i \in DOMAIN a_schedule["service_period"] :
       \E j \in DOMAIN b_schedule["service_period"] :
         Cardinality(DaysOf(a_schedule["service_period"][i])
                       \cap DaysOf(b_schedule["service_period"][j])) = 1

\* adjacent ranges were found to be disjoint
C13_WitnessAdjacent ==
  /\ Checked
  /\ calendars_disjoint = "true"
  /\ \E i \in DOMAIN a_schedule["service_period"] :
       \E j \in DOMAIN b_schedule["service_period"] :
         \E d \in DaysOf(a_schedule["service_period"][i]) :
           d + 1 \in DaysOf(b_schedule["service_period"][j])

\* the zone_id a zone of a feed is mapped to
MigratedZone(side, zone_id) ==
  IF zone_id = None THEN None ELSE ZoneMap(Cur, side)[zone_id]

\* the tuple a fare rule of a feed is translated to through the feed's merge
\* map and zone map
TranslatedFareRule(side, fare_rule) ==
  [fare_id |->
     MigratedId(side, "fare", GetById("fare", Sched(side), fare_rule.fare_id)),
   route_id |->
     IF fare_rule.route_id = None THEN None
     ELSE MigratedId(side, "route",
                     GetById("route", Sched(side), fare_rule.route_id)),
   origin_id |-> MigratedZone(side, fare_rule.origin_id),
   destination_id |-> MigratedZone(side, fare_rule.destination_id),
   contains_id |-> MigratedZone(side, fare_rule.contains_id)]

FareRulesOf(side) ==
  {Sched(side)["fare"][i].rules[n] :
     <<i, n>> \in {x \in (DOMAIN Sched(side)["fare"]) \X (1..MaxIds) :
                     x[2] \in DOMAIN Sched(side)["fare"][x[1]].rules}}

TranslatedFareRules ==
  {TranslatedFareRule("a", r) : r \in FareRulesOf("a")}
    \cup {TranslatedFareRule("b", r) : r \in FareRulesOf("b")}

\* C14: the FareRuleMerger puts into the output exactly one fare rule for
\* each distinct tuple (fare_id, route_id, origin_id, destination_id,
\* contains_id) the fare rules of the two feeds are translated to through the
\* merge maps and the zone maps, and it reports fare_rules_broken exactly
\* when there is such a tuple.
C14_OneFareRulePerTuple ==
  Done("fare_rule") =>
    /\ Output("fare_rule") = TranslatedFareRules
    /\ Len(merged_schedule["fare_rule"]) = Cardinality(TranslatedFareRules)
    /\ HasProblem("fare_rules_broken", "fare_rule") <=> TranslatedFareRules # {}

\* fare rules of the two feeds were translated to one tuple, others to
\* tuples of their own
C14_Witness ==
  /\ Done("fare_rule")
  /\ Cardinality(TranslatedFareRules) >= 2
  /\ \E r \in FareRulesOf("a") :
       \E q \in FareRulesOf("b") :
         TranslatedFareRule("a", r) = TranslatedFareRule("b", q)

\* a map after register: the entry of the key given is the migrated entity,
\* every other entry is as before; the map as before when no key is given
Registered(map, after, key, migrated_entity) ==
  /\ DOMAIN after = DOMAIN map \cup ({key} \ {NoKey})
  /\ \A k \in DOMAIN after :
       after[k] = IF k = key THEN migrated_entity ELSE map[k]
  /\ key = NoKey => after = map

\* C15: register(a, b, migrated) sets a_merge_map[a] and a's back-reference
\* to migrated when a is given and b_merge_map[b] and b's back-reference when
\* b is given; the map of a side that is not given is left unchanged, and no
\* other entry of either map is changed.
C15_RegisterFrame ==
  [][\A a \in RegisterKeys, b \in RegisterKeys, m \in DOMAIN heap :
       Register(a, b, m) =>
         /\ Registered(a_merge_map, a_merge_map', a, m)
         /\ Registered(b_merge_map, b_merge_map', b, m)
         /\ a # NoKey => a_migrated_entity'[a] = m
         /\ b # NoKey => b_migrated_entity'[b] = m]_vars

\* register was called with both sides, then with one side only for another
\* entity and another migrated entity
C15_Witness ==
  /\ Key("stop", 1) \in DOMAIN a_merge_map
  /\ Key("stop", 1) \in DOMAIN b_merge_map
  /\ Key("stop", 2) \in DOMAIN b_merge_map
  /\ Key("stop", 2) \notin DOMAIN a_merge_map
  /\ a_merge_map[Key("stop", 1)] = b_merge_map[Key("stop", 1)]
  /\ b_merge_map[Key("stop", 2)] # b_merge_map[Key("stop", 1)]
  /\ b_migrated_entity[Key("stop", 2)] = b_merge_map[Key("stop", 2)]

Sides == {"a", "b"}

\* (side, i): the i-th stop of a feed
StopsOfFeeds == {x \in Sides \X (1..MaxIds) : x[2] \in DOMAIN Sched(x[1])["stop"]}

OriginalStop(x) == Sched(x[1])["stop"][x[2]]

\* the migrated counterpart of a stop of a feed
OutputStop(x) == heap[MergeMap(Cur, x[1])[Key("stop", x[2])]]

\* two stops of different feeds were merged into one
MergedStops(x, y) ==
  /\ x[1] # y[1]
  /\ MergeMap(Cur, x[1])[Key("stop", x[2])]
       = MergeMap(Cur, y[1])[Key("stop", y[2])]

\* C16: after the StopMerger ran, the zone_id of the output stop of every
\* stop of a feed is the feed's zone map applied to the stop's original
\* zone_id, so stops of one feed with one original zone have one output zone;
\* the zone of a merged pair is kept, and every other stop of either feed
\* with that original zone has it in the output too.
C16_ZonesFollowZoneMaps ==
  Done("stop") =>
    /\ \A x \in StopsOfFeeds :
         /\ OriginalStop(x).zone_id \in DOMAIN ZoneMap(Cur, x[1])
         /\ OutputStop(x).zone_id = ZoneMap(Cur, x[1])[OriginalStop(x).zone_id]
    /\ \A x \in StopsOfFeeds, y \in StopsOfFeeds :
         (x[1] = y[1] /\ OriginalStop(x).zone_id = OriginalStop(y).zone_id)
           => OutputStop(x).zone_id = OutputStop(y).zone_id
    /\ \A x \in StopsOfFeeds, y \in StopsOfFeeds :
         MergedStops(x, y) =>
           /\ OutputStop(x).zone_id = OriginalStop(x).zone_id
           /\ \A w \in StopsOfFeeds :
                OriginalStop(w).zone_id = OriginalStop(x).zone_id
                  => OutputStop(w).zone_id = OriginalStop(x).zone_id

\* a pair was merged, a stop that was not merged has the pair's zone, and
\* the zone of another stop was given a new id
C16_Witness ==
  /\ Done("stop")
  /\ \E x \in StopsOfFeeds, y \in StopsOfFeeds, w \in StopsOfFeeds :
       /\ MergedStops(x, y)
       /\ w \notin {x, y}
       /\ OriginalStop(w).zone_id = OriginalStop(x).zone_id
  /\ \E x \in StopsOfFeeds :
       OutputStop(x).zone_id # OriginalStop(x).zone_id

\* two stops of one feed share a zone that was given a new id
C16_WitnessSameFeed ==
  /\ Done("stop")
  /\ \E x \in StopsOfFeeds, y \in StopsOfFeeds :
       /\ x[1] = y[1] /\ x[2] # y[2]
       /\ OriginalStop(x).zone_id = OriginalStop(y).zone_id
       /\ OutputStop(x).zone_id # OriginalStop(x).zone_id

\* some merged pair of stops has the zone
ZoneOfMergedPair(zone_id) ==
  \E p \in StopsOfFeeds, q \in StopsOfFeeds :
    MergedStops(p, q) /\ OriginalStop(p).zone_id = zone_id

\* C17: two output stops have the same zone_id only if their original
\* zone_ids were the same and, when they come from different feeds, only if
\* some merged pair of stops has that zone: distinct zones of one feed are
\* never collapsed, and a generated zone id never equals a zone id kept from
\* a merged pair or another generated zone id.
C17_ZonesNeverCollapsed ==
  Done("stop") =>
    \A x \in StopsOfFeeds, y \in StopsOfFeeds :
      OutputStop(x).zone_id = OutputStop(y).zone_id =>
        /\ OriginalStop(x).zone_id = OriginalStop(y).zone_id
        /\ x[1] # y[1] => ZoneOfMergedPair(OriginalStop(x).zone_id)

\* stops of the two feeds with one original zone were given different
\* generated zones, no pair of that zone having merged
C17_Witness ==
  /\ Done("stop")
  /\ \E x \in StopsOfFeeds, y \in StopsOfFeeds :
       /\ x[1] # y[1]
       /\ OriginalStop(x).zone_id = OriginalStop(y).zone_id
       /\ ~ZoneOfMergedPair(OriginalStop(x).zone_id)
       /\ OutputStop(x).zone_id # OutputStop(y).zone_id

\* the parent of a stop in the stop's own feed
ParentOf(x) ==
  <<x[1], GetById("stop", Sched(x[1]), OriginalStop(x).parent_station)>>

\* the stop of a feed is one the output stop takes its parent from: a stop of
\* B, or a stop of A that was not merged
GivesParent(x) == x[1] = "b" \/ MigratedAlone("a", "stop", x[2])

\* C18: after the StopMerger ran, the parent_station of an output stop is the
\* stop_id of the migrated counterpart of the parent the stop has in its own
\* feed (for a merged pair, of the parent b has in B), also when that parent
\* was given a generated id; a stop without parent has none in the output.
C18_ParentsPreserved ==
  Done("stop") =>
    \A x \in StopsOfFeeds :
      GivesParent(x) =>
        OutputStop(x).parent_station =
          IF OriginalStop(x).parent_station = None THEN None
          ELSE OutputStop(ParentOf(x)).stop_id

\* a merged pair of stops under a parent that was not merged and was given a
\* generated id
C18_Witness ==
  /\ Done("stop")
  /\ \E x \in StopsOfFeeds, y \in StopsOfFeeds :
       /\ MergedStops(x, y)
       /\ x[1] = "b"
       /\ OriginalStop(x).parent_station # None
       /\ OriginalStop(y).parent_station # None
       /\ OutputStop(x).parent_station # OriginalStop(x).parent_station
       /\ OutputStop(x).parent_station = OutputStop(ParentOf(x)).stop_id
       /\ OutputStop(ParentOf(y)).stop_id # OutputStop(ParentOf(x)).stop_id

\* (side, i): the i-th trip of a feed
TripsOfFeeds == {x \in Sides \X (1..MaxIds) : x[2] \in DOMAIN Sched(x[1])["trip"]}

OriginalTrip(x) == Sched(x[1])["trip"][x[2]]

\* the migrated counterpart of a trip of a feed
OutputTrip(x) == heap[MergeMap(Cur, x[1])[Key("trip", x[2])]]

\* the other feed has a trip of the trip's id
TripIdInOtherFeed(x) ==
  \E y \in TripsOfFeeds :
    y[1] # x[1] /\ OriginalTrip(y).trip_id = OriginalTrip(x).trip_id

\* the id of the migrated counterpart of the entity of a kind and id in the
\* feed of a side
CounterpartId(side, kind, id) ==
  MigratedId(side, kind, GetById(kind, Sched(side), id))

\* C19: trips are never merged: after the TripMerger ran the output has as
\* many trips as A and B together, with pairwise distinct trip_ids; a trip
\* whose trip_id the other feed has too gets a generated trip_id and keeps
\* the original in original_trip_id, any other trip keeps its trip_id; the
\* route_id, service_id, shape_id and stops of the stop times of a migrated
\* trip are those of the migrated counterparts in the trip's own feed.
C19_TripsMigratedNeverMerged ==
  Done("trip") =>
    /\ Len(merged_schedule["trip"])
         = Len(a_schedule["trip"]) + Len(b_schedule["trip"])
    /\ \A n \in DOMAIN merged_schedule["trip"] :
         \A m \in DOMAIN merged_schedule["trip"] :
           n # m => heap[merged_schedule["trip"][n]].trip_id
                      # heap[merged_schedule["trip"][m]].trip_id
    /\ \A x \in TripsOfFeeds :
         /\ InOutput("trip", MergeMap(Cur, x[1])[Key("trip", x[2])])
         /\ IF TripIdInOtherFeed(x)
            THEN /\ IsGeneratedFrom(OutputTrip(x).trip_id, OriginalTrip(x).trip_id)
                 /\ OutputTrip(x).original_trip_id = OriginalTrip(x).trip_id
            ELSE OutputTrip(x).trip_id = OriginalTrip(x).trip_id
         /\ OutputTrip(x).route_id
              = CounterpartId(x[1], "route", OriginalTrip(x).route_id)
         /\ OutputTrip(x).service_id
              = CounterpartId(x[1], "service_period", OriginalTrip(x).service_id)
         /\ OutputTrip(x).shape_id
              = IF OriginalTrip(x).shape_id = None THEN None
                ELSE CounterpartId(x[1], "shape", OriginalTrip(x).shape_id)
         /\ DOMAIN OutputTrip(x).stop_times = DOMAIN OriginalTrip(x).stop_times
         /\ \A j \in DOMAIN OriginalTrip(x).stop_times :
              OutputTrip(x).stop_times[j]
                = MergeMap(Cur, x[1])[
                    Key("stop", GetById("stop", Sched(x[1]),
                                        OriginalTrip(x).stop_times[j]))]

\* a trip of an id both feeds have, a trip of an id one feed has, and a trip
\* whose service period and stop were given new ids
C19_Witness ==
  /\ Done("trip")
  /\ \E x \in TripsOfFeeds, y \in TripsOfFeeds :
       /\ TripIdInOtherFeed(x)
       /\ ~TripIdInOtherFeed(y)
       /\ OutputTrip(x).service_id # OriginalTrip(x).service_id
       /\ OutputTrip(x).shape_id # None
       /\ heap[OutputTrip(x).stop_times[1]].stop_id # OriginalTrip(x).stop_times[1]

\* C20: two migrated trips whose block_id is not empty have the same block_id
\* in the output if and only if they come from the same feed and had the same
\* block_id there; a trip with an empty block_id keeps it empty.
C20_BlocksApartByFeed ==
  Done("trip") =>
    /\ \A x \in TripsOfFeeds, y \in TripsOfFeeds :
         (OriginalTrip(x).block_id # None /\ OriginalTrip(y).block_id # None)
           => ((OutputTrip(x).block_id = OutputTrip(y).block_id)
                 <=> (x[1] = y[1]
                        /\ OriginalTrip(x).block_id = OriginalTrip(y).block_id))
    /\ \A x \in TripsOfFeeds :
         OriginalTrip(x).block_id = None => OutputTrip(x).block_id = None

\* trips of one block in one feed, a trip of that block in the other feed,
\* and a trip without block
C20_Witness ==
  /\ Done("trip")
  /\ \E x \in TripsOfFeeds, y \in TripsOfFeeds, w \in TripsOfFeeds :
       /\ x # y /\ x[1] = y[1] /\ w[1] # x[1]
       /\ OriginalTrip(x).block_id # None
       /\ OriginalTrip(x).block_id = OriginalTrip(y).block_id
       /\ OriginalTrip(x).block_id = OriginalTrip(w).block_id
       /\ OutputTrip(x).block_id = OutputTrip(y).block_id
       /\ OutputTrip(x).block_id # OutputTrip(w).block_id
  /\ \E x \in TripsOfFeeds : OutputTrip(x).block_id = None

\* C21: a MergeError raised by an attempt to merge a pair is caught by the
\* strategy that made the attempt and never leaves merge_data_sets; a pair
\* that does not merge never aborts the run: the mergers of agencies, stops,
\* routes, fares, transfers, shapes and trips return True for every pair of
\* feeds, so that only the ServicePeriodMerger can return False.
C21_MergeErrorNeverEscapes ==
  /\ ~crashed
  /\ result = "false" => called[Len(called)].kind = "service_period"
  /\ \A n \in DOMAIN called :
       called[n].kind \in {"agency", "stop", "route", "fare", "transfer",
                           "shape", "trip"}
         => /\ pc > n
            /\ (result = "false" => n < Len(called))

\* a run returned True in which pairs of one id failed to merge, the
\* TransferMerger among its mergers
C21_Witness ==
  /\ result = "true"
  /\ "transfer" \in KindsCalled
  /\ \E kind \in MergingKinds : FailingPairs(kind) # {}
  /\ SameIdPairs("trip") # {}

\* the problems of a name reported for a kind
ProblemsOf(name, kind) ==
  {n \in DOMAIN problems :
     problems[n].problem = name /\ problems[n].kind = kind}

\* the merger of a kind was called and returned True
ReturnedTrue(kind) ==
  \E n \in DOMAIN called : called[n].kind = kind /\ pc > n

\* the merger of a kind was called and returned False
ReturnedFalse(kind) ==
  /\ result = "false"
  /\ called[Len(called)].kind = kind

\* C22: the ServicePeriodMerger and the TripMerger each report
\* merge_not_implemented exactly once on a run in which they return True,
\* whether or not the feeds have a pair of one id, and never report
\* same_id_but_not_merged for such a pair; the ServicePeriodMerger reports no
\* merge_not_implemented on a run in which it returns False.
C22_MergeNotImplementedOnce ==
  \A kind \in {"service_period", "trip"} :
    /\ ReturnedTrue(kind)
         => Cardinality(ProblemsOf("merge_not_implemented", kind)) = 1
    /\ ProblemsOf("same_id_but_not_merged", kind) = {}
    /\ ReturnedFalse(kind) => ProblemsOf("merge_not_implemented", kind) = {}
    /\ ~ReturnedTrue(kind) => ProblemsOf("merge_not_implemented", kind) = {}

\* both mergers returned True, the service periods of the feeds having no
\* id in common and the trips having one
C22_Witness ==
  /\ ReturnedTrue("service_period")
  /\ ReturnedTrue("trip")
  /\ SameIdPairs("service_period") = {}
  /\ SameIdPairs("trip") # {}

\* the ServicePeriodMerger returned False
C22_WitnessFalse ==
  /\ ReturnedFalse("service_period")
  /\ SameIdPairs("service_period") # {}

\* the agency ids a route of a feed may carry: those of the feed's agencies,
\* or none
AgencyIdsOf(side) ==
  {None} \cup {Sched(side)["agency"][i].agency_id :
                 i \in DOMAIN Sched(side)["agency"]}

\* the migrated agency an agency id of a feed resolves to, 0 when the id is
\* empty and the feed has no default agency
ResolvedAgency(side, agency_id) ==
  IF ResolveAgency(Sched(side), agency_id) = 0 THEN 0
  ELSE MergeMap(Cur, side)[
         Key("agency", ResolveAgency(Sched(side), agency_id))]

\* the ids of A and of B resolve to one migrated agency
SameMigratedAgency(a_agency_id, b_agency_id) ==
  /\ ResolvedAgency("a", a_agency_id) # 0
  /\ ResolvedAgency("a", a_agency_id) = ResolvedAgency("b", b_agency_id)

BothResolve(a_agency_id, b_agency_id) ==
  ResolvedAgency("a", a_agency_id) # 0 /\ ResolvedAgency("b", b_agency_id) # 0

\* C23: _merge_same_agency(a_id, b_id) resolves an empty id to the default
\* agency of its feed, maps both to their migrated agencies, and returns the
\* migrated agency's id if and only if the two are the same migrated agency:
\* equal ids of different migrated agencies raise MergeError, different ids
\* of one migrated agency succeed.  So two routes of one id merge only if
\* their agencies were merged.
C23_SameAgencyMeansSameMigrated ==
  /\ Done("agency") =>
       \A a_agency_id \in AgencyIdsOf("a"), b_agency_id \in AgencyIdsOf("b") :
         BothResolve(a_agency_id, b_agency_id) =>
           /\ ~merge_same_agency(Cur, a_agency_id, b_agency_id).crash
           /\ merge_same_agency(Cur, a_agency_id, b_agency_id).ok
                <=> SameMigratedAgency(a_agency_id, b_agency_id)
           /\ merge_same_agency(Cur, a_agency_id, b_agency_id).ok
                => merge_same_agency(Cur, a_agency_id, b_agency_id).val
                     = heap[ResolvedAgency("a", a_agency_id)].agency_id
  /\ Done("route") =>
       \A p \in SameIdPairs("route") :
         a_merge_map[Key("route", p[1])] = b_merge_map[Key("route", p[2])]
           => SameMigratedAgency(a_schedule["route"][p[1]].agency_id,
                                 b_schedule["route"][p[2]].agency_id)

\* an empty id and the id of the other feed's agency are one migrated
\* agency, and routes of one id merged
C23_Witness ==
  /\ Done("route")
  /\ \E b_agency_id \in AgencyIdsOf("b") \ {None} :
       /\ SameMigratedAgency(None, b_agency_id)
       /\ merge_same_agency(Cur, None, b_agency_id).ok
  /\ \E p \in SameIdPairs("route") :
       a_merge_map[Key("route", p[1])] = b_merge_map[Key("route", p[2])]

\* one id names agencies of the two feeds that were not merged, and routes
\* of one id were not merged because of it
C23_WitnessEqualIds ==
  /\ Done("route")
  /\ \E a_agency_id \in AgencyIdsOf("a") \ {None} :
       /\ a_agency_id \in AgencyIdsOf("b")
       /\ ~merge_same_agency(Cur, a_agency_id, a_agency_id).ok
       /\ ~merge_same_agency(Cur, a_agency_id, a_agency_id).crash
       /\ \E p \in SameIdPairs("route") :
            /\ a_schedule["route"][p[1]].agency_id = a_agency_id
            /\ b_schedule["route"][p[2]].agency_id = a_agency_id
            /\ a_merge_map[Key("route", p[1])] # b_merge_map[Key("route", p[2])]

\* the pairs of an entity of A and one of B that have one migrated entity
PairsOfOneEntity(kind) ==
  {p \in (DOMAIN a_schedule[kind]) \X (DOMAIN b_schedule[kind]) :
     a_merge_map[Key(kind, p[1])] = b_merge_map[Key(kind, p[2])]}

\* every original entity of a kind has one output entity, each took part in
\* at most one successful merge, and the output has |A| + |B| - merged
\* entities of pairwise distinct ids
OnePerOriginal(kind) ==
  /\ \A i \in DOMAIN a_schedule[kind] : Mapped("a", kind, i)
  /\ \A j \in DOMAIN b_schedule[kind] : Mapped("b", kind, j)
  /\ stats[kind][1] = Cardinality(PairsOfOneEntity(kind))
  /\ \A p \in PairsOfOneEntity(kind), q \in PairsOfOneEntity(kind) :
       (p[1] = q[1] \/ p[2] = q[2]) => p = q
  /\ stats[kind][2] = Len(a_schedule[kind]) - stats[kind][1]
  /\ stats[kind][3] = Len(b_schedule[kind]) - stats[kind][1]
  /\ Len(merged_schedule[kind])
       = Len(a_schedule[kind]) + Len(b_schedule[kind]) - stats[kind][1]
  /\ \A n \in DOMAIN merged_schedule[kind], m \in DOMAIN merged_schedule[kind] :
       n # m => GetId(kind, heap[merged_schedule[kind][n]])
                  # GetId(kind, heap[merged_schedule[kind][m]])

\* C24: with the strategy that tries all pairs every original entity yields
\* exactly one output entity: each entity of A and each entity of B takes
\* part in at most one successful merge, the entities that took part in none
\* are migrated once, and the output has |A| + |B| - merged entities of
\* pairwise distinct ids.
C24_AllPairsOnePerOriginal ==
  \A kind \in DifferentIdKinds : Done(kind) => OnePerOriginal(kind)

\* The same for the agencies alone, which merge only under one agency_id
C24_AllPairsOnePerAgency ==
  Done("agency") => OnePerOriginal("agency")

\* agencies were merged by trying all pairs: one pair merged, other agencies
\* were migrated
C24_Witness ==
  /\ Done("agency")
  /\ stats["agency"][1] = 1
  /\ stats["agency"][2] + stats["agency"][3] >= 2

\* C25: main writes the merged feed if and only if merge_schedules returned
\* True: the feed is written only after a True, and a True leads to the
\* written feed and then to a report with its path; after a False no feed is
\* written and the report is produced with None as the merged feed path.
C25_WritesIffMerged ==
  /\ [](written => result = "true")
  /\ [](report = "merged_feed_path" => written)
  /\ [](report = "None" => result = "false" /\ ~written)
  /\ (result = "true" ~> written)
  /\ (result = "true" ~> report = "merged_feed_path")
  /\ (result = "false" ~> report = "None")

\* both ends of main were seen: a report of a written feed after a cutoff
C25_Witness ==
  /\ report = "merged_feed_path"
  /\ written
  /\ cutoff # 0

\* a report without a merged feed, after merge_schedules returned False
C25_WitnessFalse ==
  /\ report = "None"
  /\ result = "false"

\* the kinds whose merge map entries or back-references the merger of a kind
\* looks up: RouteMerger._migrate the agency, TripMerger._migrate the route,
\* service period, shape and stops, FareRuleMerger the fare and the route,
\* TransferMerger._migrate the stops
LooksInto(kind) ==
  CASE kind = "route" -> {"agency"}
    [] kind = "trip" -> {"route", "service_period", "shape", "stop"}
    [] kind = "fare_rule" -> {"fare", "route"}
    [] kind = "transfer" -> {"stop"}
    [] OTHER -> {}

\* every entity of a kind, of both feeds, has its merge map entry and its
\* back-reference
AllRecorded(kind) ==
  /\ \A i \in DOMAIN a_schedule[kind] : Mapped("a", kind, i)
  /\ \A j \in DOMAIN b_schedule[kind] : Mapped("b", kind, j)

\* C26: with the default order of the mergers every lookup into a merge map
\* or a back-reference finds an entry recorded before: no lookup fails, each
\* merger runs after the mergers of the kinds it looks into, which by then
\* recorded every entity of both feeds, and the parents the stop fix-up
\* resolves are recorded in the StopMerger's own pass.
C26_LookupsFindEntries ==
  /\ ~crashed
  /\ \A n \in DOMAIN called :
       \A kind \in LooksInto(called[n].kind) :
         /\ \E m \in 1..(n - 1) : called[m].kind = kind
         /\ AllRecorded(kind)
  /\ "stop" \in KindsCalled => AllRecorded("stop")

\* the merge ran to its end with the TransferMerger added; a route took its
\* agency_id from an agency migrated under a generated id
C26_Witness ==
  /\ result = "true"
  /\ {"route", "trip", "fare_rule", "transfer"} \subseteq KindsCalled
  /\ \E side \in Sides, i \in 1..MaxIds :
       /\ i \in DOMAIN Sched(side)["agency"]
       /\ Mapped(side, "agency", i)
       /\ heap[MergeMap(Cur, side)[Key("agency", i)]].agency_id
            # Sched(side)["agency"][i].agency_id
       /\ \E r \in DOMAIN Sched(side)["route"] :
            Sched(side)["route"][r].agency_id = Sched(side)["agency"][i].agency_id

\* the zone ids the fare rules of a feed name
FareRuleZones(side) ==
  UNION {{r.origin_id, r.destination_id, r.contains_id} : r \in FareRulesOf(side)}
    \ {None}

\* the zone ids the stops of a feed are in
StopZones(side) ==
  {Sched(side)["stop"][i].zone_id : i \in DOMAIN Sched(side)["stop"]} \ {None}

\* after the StopMerger every zone id a fare rule names is in the zone map of
\* its feed, and FareRuleMerger.merge_data_sets, once called, has completed
\* and returned True
FareRulesMergeable ==
  /\ ~crashed
  /\ "stop" \in KindsCalled =>
       \A side \in Sides : FareRuleZones(side) \subseteq DOMAIN ZoneMap(Cur, side)
  /\ "fare_rule" \in KindsCalled => ReturnedTrue("fare_rule")

\* C27: FareRuleMerger.merge_data_sets completes and returns True for every
\* pair of feeds after the earlier default mergers have run, also when a fare
\* rule names an origin, destination or contained zone that no stop of its
\* feed is in: every zone id a fare rule names is translatable through the
\* zone map of its feed.
C27_FareRulesAlwaysMerge == FareRulesMergeable

\* The same for the feeds whose fare rules name zones of their stops only
C27_FareRulesOfStopZonesMerge ==
  (\A side \in Sides : FareRuleZones(side) \subseteq StopZones(side))
    => FareRulesMergeable

\* the fare rules were merged, those of A naming a zone
C27_Witness ==
  /\ ReturnedTrue("fare_rule")
  /\ ~crashed
  /\ Len(merged_schedule["fare_rule"]) > 0
  /\ FareRuleZones("a") # {}

\* check_disjoint_calendars was called after disjoin_calendars
CheckedAfterDisjoin == calendars_disjoint # "none" /\ cutoff # 0

\* C28: after disjoin_calendars(cutoff) on feeds whose service periods all
\* have a start and an end date, check_disjoint_calendars returns True,
\* whatever the cutoff and the feeds, also when the truncation left a period
\* empty (start_date later than end_date) or a period has date exceptions
\* that add service.
C28_DisjointAfterDisjoin ==
  CheckedAfterDisjoin => calendars_disjoint = "true"

\* the check came after a truncation that left a period of A empty, with a
\* date of added service kept in A and one in B
C28_Witness ==
  /\ CheckedAfterDisjoin
  /\ \E i \in DOMAIN a_schedule["service_period"] :
       /\ a_schedule["service_period"][i].start_date
            > a_schedule["service_period"][i].end_date
       /\ \E d \in DOMAIN a_schedule["service_period"][i].date_exceptions :
            a_schedule["service_period"][i].date_exceptions[d] = 1
  /\ \E j \in DOMAIN b_schedule["service_period"] :
       \E d \in DOMAIN b_schedule["service_period"][j].date_exceptions :
         b_schedule["service_period"][j].date_exceptions[d] = 1

\* the mergers that use _merge_same_id and whose get_merge_stats returns the
\* counters
StatisticsKinds == {"agency", "stop", "route", "fare", "shape"}

\* C29: after the strategy by id has completed for a merger that reports
\* statistics, merged + not_merged_a is the number of entities of its kind in
\* feed A, merged + not_merged_b the number in feed B, and the output has
\* merged + not_merged_a + not_merged_b entities of the kind.
C29_StatisticsAddUp ==
  \A kind \in StatisticsKinds :
    Done(kind) =>
      /\ stats[kind][1] + stats[kind][2] = Len(a_schedule[kind])
      /\ stats[kind][1] + stats[kind][3] = Len(b_schedule[kind])
      /\ Len(merged_schedule[kind])
           = stats[kind][1] + stats[kind][2] + stats[kind][3]

\* of one kind, in one merge: a pair merged and a pair of one id not merged
C29_Witness ==
  \E kind \in StatisticsKinds :
    /\ Done(kind)
    /\ stats[kind] = <<1, 1, 1>>

\* of one kind, in one merge: a pair merged and an entity of A alone with
\* its id
C29_WitnessAlone ==
  \E kind \in StatisticsKinds :
    /\ Done(kind)
    /\ stats[kind] = <<1, 1, 0>>

\* the merger of a kind is the next to run, or has run
AtMerger(kind) ==
  \/ Done(kind)
  \/ /\ pc \in DOMAIN mergers
     /\ result = "none"
     /\ ~crashed
     /\ mergers[pc].kind = kind

\* self._merge_entities(a, b) tried from the present state on the pair p of
\* entities of one id
Attempt(kind, p) ==
  MergeEntities(kind, Cur, a_schedule[kind][p[1]], b_schedule[kind][p[2]])

\* the kinds whose mergers try to merge the entities of one id
AttemptKinds == MergingKinds \cup {"service_period", "trip"}

\* C30: an attempt to merge a pair that fails with MergeError has no effect
\* on the shared state: the output schedule, the merge maps, the zone maps,
\* the back-references, the id counter and the count of merged entities are
\* after it what they were before; and the stops of every pair the
\* StopMerger recorded as merged have one zone_id.
C30_FailedAttemptChangesNothing ==
  /\ ~crashed
  /\ \A kind \in AttemptKinds :
       AtMerger(kind) =>
         \A p \in SameIdPairs(kind) :
           ~Attempt(kind, p).ok => Attempt(kind, p).s = Cur
  /\ Done("stop") =>
       \A x \in StopsOfFeeds, y \in StopsOfFeeds :
         MergedStops(x, y) => OriginalStop(x).zone_id = OriginalStop(y).zone_id

\* the StopMerger ran over a pair of one id that did not merge and a pair
\* that did
C30_Witness ==
  /\ Done("stop")
  /\ FailingPairs("stop") # {}
  /\ \E p \in FailingPairs("stop") : ~Attempt("stop", p).ok
  /\ \E x \in StopsOfFeeds, y \in StopsOfFeeds : MergedStops(x, y)

====
